---- MODULE Spec2Model ----
(***************************************************************************)
(* Model of the Open Source Learning Platform (script.js as kept in        *)
(* src/README.md, github-api.js): the module navigation with its persisted *)
(* progress record, and the six-step pull-request submission.              *)
(*                                                                         *)
(* Text is a sequence of one-character strings.  The page is the state     *)
(* after the DOMContentLoaded handler has run.  A control that sits in a   *)
(* hidden section cannot be clicked, so the buttons of module k are live   *)
(* only while showSection has made module-k the visible section.           *)
(***************************************************************************)
EXTENDS Integers, Sequences, FiniteSets, TLC

\* ------------------------------------------------------------------------
\* Bounds of the model
\* ------------------------------------------------------------------------
MaxRuns == 2

\* submissions in the behaviours checked for termination
MaxLiveRuns == 1

\* clicks on the generate button of module 1 on one page
MaxRequests == 2

\* clicks that start a generation of module 1 between two page loads of
\* the navigation
MaxNavRequests == 1

\* ------------------------------------------------------------------------
\* Program constants
\* ------------------------------------------------------------------------
LastModule == 4

Modules == 0..LastModule

VARIABLES
    currentModule,    \* let currentModule
    userProgress,     \* let userProgress
    stored,           \* localStorage item 'osLearningProgress'
    shown,            \* the section showSection left visible
    sidebar,          \* class and icon of every '#module-list li'
    geminiField,      \* value of input #gemini-api-key
    tokenField,       \* value of input #github-token
    lastEvent,        \* the last navigation handler, its target and result
    runs,             \* the submitPullRequest invocations of this browser
    submitDisabled,   \* #submit-pr-btn .disabled
    formHidden,       \* .pr-submission-form hidden by showSuccessMessage
    ledger,           \* CONTRIBUTORS.md on each learner's fork
    sha,              \* blob version of that file on each fork
    search,           \* the call of a github-api.js search under way
    appended,         \* the last ledger text an entry was appended to
    module1           \* module 1: generations under way, what is displayed

navVars == <<currentModule, userProgress, stored, shown, sidebar,
             geminiField, tokenField, lastEvent>>
prVars == <<runs, submitDisabled, formHidden, ledger, sha>>
vars == <<currentModule, userProgress, stored, shown, sidebar,
          geminiField, tokenField, lastEvent,
          runs, submitDisabled, formHidden, ledger, sha, search,
          appended, module1>>

\* ------------------------------------------------------------------------
\* Text helpers
\* ------------------------------------------------------------------------
Range(s) == {s[i] : i \in 1..Len(s)}

\* WhiteSpace and LineTerminator of ECMAScript, the code points that
\* String.prototype.trim strips; a code point the module cannot spell is
\* written by its number
Whitespace ==
    {"\t", "U+000B", "\f", " ", "U+00A0", "U+FEFF",
     "U+1680", "U+2000", "U+2001", "U+2002", "U+2003", "U+2004", "U+2005",
     "U+2006", "U+2007", "U+2008", "U+2009", "U+200A", "U+202F", "U+205F",
     "U+3000",
     "\n", "\r", "U+2028", "U+2029"}

RECURSIVE trimStart(_)
trimStart(s) ==
    IF s # <<>> /\ Head(s) \in Whitespace THEN trimStart(Tail(s)) ELSE s

RECURSIVE trimEnd(_)
trimEnd(s) ==
    IF s # <<>> /\ s[Len(s)] \in Whitespace
    THEN trimEnd(SubSeq(s, 1, Len(s) - 1))
    ELSE s

\* String.prototype.trim
trim(s) == trimEnd(trimStart(s))

\* String.prototype.includes
includes(s, needle) ==
    \E i \in 0..(Len(s) - Len(needle)) :
        SubSeq(s, i + 1, i + Len(needle)) = needle

\* ------------------------------------------------------------------------
\* SECTION 2: localStorage
\* ------------------------------------------------------------------------
NoRecord == [present |-> FALSE]

DefaultProgress ==
    [geminiApiKey |-> <<>>, githubToken |-> <<>>,
     interest |-> "", skillLevel |-> "", gitExperience |-> "",
     completedModules |-> <<>>, currentModule |-> 0]

\* the item setItem leaves when it accepts the JSON text of the object: a
\* copy of the object as it is at the time of the call
Item(up) == [present |-> TRUE, value |-> up]

\* saveProgress: what localStorage holds after it.  setItem stores the
\* item, or throws (storage full or disabled); the catch block logs the
\* error and the storage is as it was
saveProgress(up) == {Item(up), stored}

\* ------------------------------------------------------------------------
\* SECTION 3: module navigation
\* ------------------------------------------------------------------------
ModuleSections == <<"module-1", "module-2", "module-3", "module-4">>

\* 'home-setup' for 0, `module-${n}` otherwise
SectionId(n) ==
    IF n = 0 THEN "home-setup"
    ELSE IF n \in 1..Len(ModuleSections) THEN ModuleSections[n]
    ELSE "module-other"

Sections == {SectionId(n) : n \in Modules}

\* variant: the next available module is not given the class 'locked'
SidebarItem_unlockedOpen(cur, completed, index) ==
    IF index = 0
    THEN IF cur = 0 THEN [class |-> "active", icon |-> "home"]
                    ELSE [class |-> "completed", icon |-> "check"]
    ELSE IF cur = index THEN [class |-> "active", icon |-> "current"]
    ELSE IF index \in Range(completed)
         THEN [class |-> "completed", icon |-> "check"]
    ELSE IF cur >= index - 1 THEN [class |-> "unlocked", icon |-> "unlocked"]
    ELSE [class |-> "locked", icon |-> "lock"]

\* the class and icon updateSidebar gives to item index
SidebarItem(cur, completed, index) ==
    IF index = 0
    THEN IF cur = 0 THEN [class |-> "active", icon |-> "home"]
                    ELSE [class |-> "completed", icon |-> "check"]
    ELSE IF cur = index THEN [class |-> "active", icon |-> "current"]
    ELSE IF index \in Range(completed)
         THEN [class |-> "completed", icon |-> "check"]
    ELSE IF cur >= index - 1 THEN [class |-> "locked", icon |-> "unlocked"]
    ELSE [class |-> "locked", icon |-> "lock"]

updateSidebar(cur, completed) ==
    [index \in Modules |-> SidebarItem(cur, completed, index)]

\* showSection: hides every section, shows the target if it exists
showSection(sectionId) ==
    IF sectionId \in Sections THEN sectionId ELSE "none"

\* variant: the progress is saved before the move is recorded in it
goToModule_saveFirst(up, moduleNumber) ==
    /\ currentModule' = moduleNumber
    /\ userProgress' = [up EXCEPT !.currentModule = moduleNumber]
    /\ shown' = showSection(SectionId(moduleNumber))
    /\ sidebar' = updateSidebar(moduleNumber, up.completedModules)
    /\ stored' \in saveProgress(up)

\* goToModule(moduleNumber), applied to the progress object up
goToModule(up, moduleNumber) ==
    /\ currentModule' = moduleNumber
    /\ userProgress' = [up EXCEPT !.currentModule = moduleNumber]
    /\ shown' = showSection(SectionId(moduleNumber))
    /\ sidebar' = updateSidebar(moduleNumber, up.completedModules)
    /\ stored' \in saveProgress(userProgress')

\* variant: the module is not added to completedModules
completeModule_noPush(up, moduleNumber) == goToModule(up, moduleNumber + 1)

\* variant: the module is pushed without looking for it first
completeModule_alwaysPush(up, moduleNumber) ==
    goToModule([up EXCEPT !.completedModules = Append(@, moduleNumber)],
               moduleNumber + 1)

\* completeModule(moduleNumber), applied to the progress object up
completeModule(up, moduleNumber) ==
    LET done == IF moduleNumber \in Range(up.completedModules)
                THEN up.completedModules
                ELSE Append(up.completedModules, moduleNumber)
    IN  goToModule([up EXCEPT !.completedModules = done], moduleNumber + 1)

\* ------------------------------------------------------------------------
\* SECTION 4: setup page
\* ------------------------------------------------------------------------
\* what can be typed or pasted into a key input
KeyTexts == {<<"\t">>, <<"k">>, <<"U+00A0", "k", " ">>}

\* the learner types into the two key inputs of the setup page
EnterKeys(g, t) ==
    /\ shown = "home-setup"
    /\ geminiField' = g
    /\ tokenField' = t
    /\ lastEvent' = [op |-> "input", arg |-> 0, done |-> TRUE]
    /\ UNCHANGED <<currentModule, userProgress, stored, shown, sidebar>>
    /\ UNCHANGED <<prVars, search, appended, module1>>

\* click on #start-learning-btn
startLearning ==
    /\ shown = "home-setup"
    /\ LET geminiKey == trim(geminiField)
           githubToken == trim(tokenField)
       IN  IF geminiKey = <<>> \/ githubToken = <<>>
           THEN /\ lastEvent' = [op |-> "start", arg |-> 1, done |-> FALSE]
                /\ UNCHANGED <<currentModule, userProgress, stored, shown,
                               sidebar>>
           ELSE /\ completeModule(
                      [userProgress EXCEPT !.geminiApiKey = geminiKey,
                                           !.githubToken = githubToken], 0)
                /\ lastEvent' = [op |-> "start", arg |-> 1, done |-> TRUE]
    /\ UNCHANGED <<geminiField, tokenField>>
    /\ UNCHANGED <<prVars, search, appended, module1>>

\* ------------------------------------------------------------------------
\* SECTION 9: event listeners
\* ------------------------------------------------------------------------
\* click on #next-module-k, k = 1..3
NextModuleClick(k) ==
    /\ shown = SectionId(k)
    /\ completeModule(userProgress, k)
    /\ lastEvent' = [op |-> "next", arg |-> k + 1, done |-> TRUE]
    /\ UNCHANGED <<geminiField, tokenField>>
    /\ UNCHANGED <<prVars, search, appended, module1>>

\* click on #prev-module-k, k = 2..3
PrevModuleClick(k) ==
    /\ shown = SectionId(k)
    /\ goToModule(userProgress, k - 1)
    /\ lastEvent' = [op |-> "prev", arg |-> k - 1, done |-> TRUE]
    /\ UNCHANGED <<geminiField, tokenField>>
    /\ UNCHANGED <<prVars, search, appended, module1>>

\* click on sidebar item index
SidebarClick(index) ==
    /\ IF sidebar[index].class = "locked"
       THEN /\ lastEvent' = [op |-> "jump", arg |-> index, done |-> FALSE]
            /\ UNCHANGED <<currentModule, userProgress, stored, shown,
                           sidebar>>
       ELSE /\ goToModule(userProgress, index)
            /\ lastEvent' = [op |-> "jump", arg |-> index, done |-> TRUE]
    /\ UNCHANGED <<geminiField, tokenField>>
    /\ UNCHANGED <<prVars, search, appended, module1>>

\* what the select of module k offers: nothing chosen, or one option
Choices ==
    <<{"", "web-development"}, {"", "some-experience"}, {"", "used-a-little"}>>

\* the start of generateModule1Content, generateModule2Content and
\* generateModule3Content (k = 1..3) with the select at choice: the alert
\* on an empty selection, else the choice is recorded and saved
saveChoice(k, choice) ==
    /\ shown = SectionId(k)
    /\ IF choice = ""
       THEN /\ lastEvent' = [op |-> "generate", arg |-> k, done |-> FALSE]
            /\ UNCHANGED <<userProgress, stored>>
       ELSE /\ userProgress' =
                  IF k = 1 THEN [userProgress EXCEPT !.interest = choice]
                  ELSE IF k = 2
                  THEN [userProgress EXCEPT !.skillLevel = choice]
                  ELSE [userProgress EXCEPT !.gitExperience = choice]
            /\ stored' \in saveProgress(userProgress')
            /\ lastEvent' = [op |-> "generate", arg |-> k, done |-> TRUE]
    /\ UNCHANGED <<currentModule, shown, sidebar, geminiField, tokenField>>

\* click on #generate-personalized-btn with the select at choice, the
\* whole task of the click: the loading text and callGeminiAPI up to its
\* fetch; without a Gemini key callGeminiAPI throws before any fetch and
\* the catch block has displayed the error when the task ends
generateModule1Content(choice) ==
    /\ saveChoice(1, choice)
    /\ module1' =
          IF choice = "" THEN module1
          ELSE IF userProgress.geminiApiKey = <<>>
          THEN [module1 EXCEPT
                  !.requests = Append(@, [interest |-> choice,
                                          pc |-> "done", topic |-> ""]),
                  !.aiResponse = [kind |-> "error", interest |-> choice]]
          ELSE [module1 EXCEPT
                  !.requests = Append(@, [interest |-> choice,
                                          pc |-> "gemini", topic |-> ""]),
                  !.aiResponse = [kind |-> "loading", interest |-> ""]]
    /\ UNCHANGED <<prVars, search, appended>>

\* click on the generate button of module k = 1..3; the displays of
\* modules 2 and 3 are not among the variables
generateModuleContent(k, choice) ==
    IF k = 1 THEN generateModule1Content(choice)
    ELSE /\ saveChoice(k, choice)
         /\ UNCHANGED <<prVars, search, appended, module1>>

\* variant: currentModule is not taken from the loaded object
loadProgress_keepsModule(item) ==
    IF ~item.present
    THEN [up |-> DefaultProgress, cur |-> 0, gemini |-> <<>>, token |-> <<>>]
    ELSE [up |-> item.value,
          cur |-> 0,
          gemini |-> item.value.geminiApiKey,
          token |-> item.value.githubToken]

\* loadProgress, as a function of the stored item: the progress object,
\* currentModule and the two key inputs it leaves behind
loadProgress(item) ==
    IF ~item.present
    THEN [up |-> DefaultProgress, cur |-> 0, gemini |-> <<>>, token |-> <<>>]
    ELSE [up |-> item.value,
          cur |-> item.value.currentModule,
          gemini |-> item.value.geminiApiKey,
          token |-> item.value.githubToken]


\* ------------------------------------------------------------------------
\* The learner's texts and the CONTRIBUTORS.md ledger
\* ------------------------------------------------------------------------
Ali == <<"a", "l", "i">>
Alice == <<"a", "l", "i", "c", "e">>

\* GitHub logins that own a fork
Users == {Ali, Alice}

\* what can be typed into #github-username and #student-name
UserTexts ==
    {<<" ">>, <<"\t">>, Ali, Ali \o <<"U+00A0">>, <<" ">> \o Alice,
     <<"U+FEFF">> \o Alice}

\* a character outside Latin-1, which btoa cannot encode
WideChar == "W"

NameTexts ==
    {<<>>, <<"\t">>, <<"A">>, <<"\t", "A">>, <<"A", "U+3000">>,
     <<"A", WideChar>>}

\* ------------------------------------------------------------------------
\* Dates as the browser writes them
\* ------------------------------------------------------------------------
\* the default locale of the browser, which toLocaleDateString() writes in
Locales == {"en-US", "de-DE", "ar-EG"}

LatinDigits == <<"0", "1", "2", "3", "4", "5", "6", "7", "8", "9">>

\* the digits of ar-EG, U+0660 to U+0669
ArabicIndicDigits ==
    <<"U+0660", "U+0661", "U+0662", "U+0663", "U+0664", "U+0665", "U+0666",
      "U+0667", "U+0668", "U+0669">>

\* the mark ar-EG writes after the day and after the month
RightToLeftMark == "U+200F"

\* n >= 0 in decimal, written with the digits given
RECURSIVE numeral(_, _)
numeral(n, digits) ==
    IF n < 10 THEN <<digits[n + 1]>>
    ELSE numeral(n \div 10, digits) \o <<digits[(n % 10) + 1]>>

\* the year as it is written: the year of its era, so that year 0 (1 BC)
\* is written 1 and year -1 is written 2
eraYear(year) == IF year <= 0 THEN 1 - year ELSE year

\* toLocaleDateString() of a valid date: month/day/year in en-US,
\* day.month.year in de-DE, day/month/year in the digits of ar-EG
localeDate(date, locale) ==
    IF locale = "en-US"
    THEN numeral(date.month, LatinDigits) \o <<"/">>
            \o numeral(date.day, LatinDigits) \o <<"/">>
            \o numeral(eraYear(date.year), LatinDigits)
    ELSE IF locale = "de-DE"
    THEN numeral(date.day, LatinDigits) \o <<".">>
            \o numeral(date.month, LatinDigits) \o <<".">>
            \o numeral(eraYear(date.year), LatinDigits)
    ELSE numeral(date.day, ArabicIndicDigits) \o <<RightToLeftMark, "/">>
            \o numeral(date.month, ArabicIndicDigits)
            \o <<RightToLeftMark, "/">>
            \o numeral(eraYear(date.year), ArabicIndicDigits)

\* toLocaleDateString() of a date that could not be parsed
InvalidDate == <<"I", "n", "v", "a", "l", "i", "d", " ", "D", "a", "t", "e">>

IsDigits(text) ==
    \A i \in 1..Len(text) : \E n \in 1..10 : LatinDigits[n] = text[i]

RECURSIVE number(_)
number(text) ==
    IF text = <<>> THEN 0
    ELSE 10 * number(SubSeq(text, 1, Len(text) - 1))
            + (CHOOSE n \in 0..9 : LatinDigits[n + 1] = text[Len(text)])

DaysIn(year, month) ==
    IF month = 2
    THEN IF year % 4 = 0 /\ (year % 100 # 0 \/ year % 400 = 0)
         THEN 29 ELSE 28
    ELSE IF month \in {4, 6, 9, 11} THEN 30 ELSE 31

\* the day after and the day before a day of the calendar
nextDay(date) ==
    IF date.day < DaysIn(date.year, date.month)
    THEN [date EXCEPT !.day = @ + 1]
    ELSE IF date.month < 12
    THEN [date EXCEPT !.month = @ + 1, !.day = 1]
    ELSE [date EXCEPT !.year = @ + 1, !.month = 1, !.day = 1]

prevDay(date) ==
    IF date.day > 1 THEN [date EXCEPT !.day = @ - 1]
    ELSE IF date.month > 1
    THEN [date EXCEPT !.month = @ - 1,
                      !.day = DaysIn(date.year, date.month - 1)]
    ELSE [date EXCEPT !.year = @ - 1, !.month = 12, !.day = 31]

\* the time zone of the browser, as whole hours east of UTC
Offsets == {-7, 0, 9}

\* a day of the month that the month does not have rolls over into the
\* next month
rollOver(year, month, day) ==
    IF day <= DaysIn(year, month)
    THEN [year |-> year, month |-> month, day |-> day]
    ELSE [year |-> year, month |-> month + 1,
          day |-> day - DaysIn(year, month)]

\* the year of two digits as the parser of other forms reads it
centuryYear(year) == IF year <= 49 THEN 2000 + year ELSE 1900 + year

\* new Date(text) for the two forms the API and its callers write,
\* YYYY-MM-DD and YYYY-MM-DDTHH:mm:ssZ, both read as UTC: the day of the
\* month may run up to 31 in every month and the hour up to 24:00:00, and
\* the date rolls over.  A text YYYY-MM-DD whose month or day is out of
\* range is handed to the parser of other forms, which reads its three
\* numbers as month, day and year of a local date when the first is a
\* month: 0001-01-00 is January 1st 2000.  Every other text of the two
\* forms with a field out of range, and the empty text, give an invalid
\* date
parseDate(text) ==
    LET shape ==
            /\ Len(text) \in {10, 20}
            /\ IsDigits(SubSeq(text, 1, 4)) /\ text[5] = "-"
            /\ IsDigits(SubSeq(text, 6, 7)) /\ text[8] = "-"
            /\ IsDigits(SubSeq(text, 9, 10))
            /\ Len(text) = 20 =>
                  /\ text[11] = "T" /\ IsDigits(SubSeq(text, 12, 13))
                  /\ text[14] = ":" /\ IsDigits(SubSeq(text, 15, 16))
                  /\ text[17] = ":" /\ IsDigits(SubSeq(text, 18, 19))
                  /\ text[20] = "Z"
                  /\ \/ /\ number(SubSeq(text, 12, 13)) <= 23
                        /\ number(SubSeq(text, 15, 16)) <= 59
                        /\ number(SubSeq(text, 18, 19)) <= 59
                     \/ /\ number(SubSeq(text, 12, 13)) = 24
                        /\ number(SubSeq(text, 15, 16)) = 0
                        /\ number(SubSeq(text, 18, 19)) = 0
        year == number(SubSeq(text, 1, 4))
        month == number(SubSeq(text, 6, 7))
        day == number(SubSeq(text, 9, 10))
        hour == IF Len(text) = 20 THEN number(SubSeq(text, 12, 13)) ELSE 0
    IN  IF shape /\ month \in 1..12 /\ day \in 1..31
        THEN [valid |-> TRUE, local |-> FALSE, hour |-> hour,
              day |-> rollOver(year, month, day)]
        ELSE IF shape /\ Len(text) = 10 /\ year \in 1..12 /\ month \in 1..31
        THEN [valid |-> TRUE, local |-> TRUE, hour |-> 0,
              day |-> rollOver(centuryYear(day), year, month)]
        ELSE [valid |-> FALSE, local |-> FALSE, hour |-> 0,
              day |-> [year |-> 0, month |-> 0, day |-> 0]]

\* the day of the calendar on which that instant falls in the time zone
\* of the browser; a local date is that day in every time zone
localDay(parsed, offset) ==
    IF parsed.local THEN parsed.day
    ELSE IF parsed.hour + offset >= 24 THEN nextDay(parsed.day)
    ELSE IF parsed.hour + offset < 0 THEN prevDay(parsed.day)
    ELSE parsed.day

\* new Date(text).toLocaleDateString()
toLocaleDateString(text, locale, offset) ==
    IF parseDate(text).valid
    THEN localeDate(localDay(parseDate(text), offset), locale)
    ELSE InvalidDate

\* the day of the run, in the time zone of the browser
Now == [year |-> 2026, month |-> 10, day |-> 31]

\* new Date().toLocaleDateString()
Today(locale) == localeDate(Now, locale)

Header == <<"#", " ", "C", "\n">>

EntryOpen == <<"-", " ", "[", "@">>
EntryLink == <<"]", "(", "h", "t", "t", "p", "s", ":", "/", "/", "g", "i", "t", "h", "u", "b", ".", "c", "o", "m", "/">>
EntryClose == <<")">>
EntrySep == <<" ", "-", " ">>

\* `- [@${githubUsername}](https://github.com/${githubUsername}) - ${name} - ${date}`
newEntry(githubUsername, name, date) ==
    EntryOpen \o githubUsername \o EntryLink \o githubUsername \o EntryClose
        \o EntrySep \o name \o EntrySep \o date

\* `@${githubUsername}`
marker(githubUsername) == <<"@">> \o githubUsername

\* currentContent.trim() + '\n' + newEntry + '\n'
appendEntry(currentContent, entry) ==
    trim(currentContent) \o <<"\n">> \o entry \o <<"\n">>

\* the ledger of the template repository at the time the forks were made.
\* The file is any text: empty, empty of entries or already holding the
\* entry of alice, ending in no line feed, in one, in a blank line or in
\* CR LF, or beginning with white space
Templates ==
    {body \o trail :
        body \in {<<"#", " ", "C">>,
                  Header \o newEntry(Alice, <<"B">>, Today("en-US"))},
        trail \in {<<>>, <<"\n">>, <<"\n", "\n">>}}
    \cup {<<>>, <<" ">> \o Header, <<"#", " ", "C", "\r", "\n">>}

\* the code points of Whitespace that fit in one byte
Latin1Whitespace == {"\t", "U+000B", "\f", " ", "U+00A0", "\n", "\r"}

\* btoa throws InvalidCharacterError on a character above 0xFF
btoaThrows(text) ==
    \E i \in 1..Len(text) :
        \/ text[i] = WideChar
        \/ text[i] \in Whitespace \ Latin1Whitespace
        \/ text[i] \in Range(ArabicIndicDigits) \cup {RightToLeftMark}

\* btoa / atob: the base64 form carries the same bytes
btoa(text) == [b64 |-> text]

atob(encoded) == encoded.b64

\* ------------------------------------------------------------------------
\* Responses of the GitHub API
\* ------------------------------------------------------------------------
NoResponse == [kind |-> "none", status |-> 0]

Rejected == [kind |-> "rejected", status |-> 0]

Http(status) == [kind |-> "http", status |-> status]

\* Response.ok
ok(response) == response.status >= 200 /\ response.status <= 299

ForkResponses == {Rejected, Http(202), Http(409), Http(401), Http(404), Http(500)}

ReadResponses == {Rejected, Http(200), Http(404), Http(401)}

WriteResponses == {Rejected, Http(200), Http(409)}

PRResponses == {Rejected, Http(201), Http(422)}

\* JSON body of the answer to POST /pulls: html_url and url of the created
\* pull request on a 2xx, the message of the error otherwise ("" when the
\* body carries none)
PRBodies(response) ==
    IF ok(response)
    THEN {[html_url |-> h, url |-> "api/pulls", message |-> ""] :
             h \in {"pull/1", "pull/2"}}
    ELSE {[html_url |-> "", url |-> "", message |-> m] :
             m \in {"", "Validation Failed"}}

\* the inputs of the behaviours with repeated submissions: names btoa can
\* encode, and for each call one answer that lets the run go on and the
\* answers that stop it in different ways
RepeatedNameTexts == {n \in NameTexts : WideChar \notin Range(n)}

RepeatedLocales == {"en-US"}

RepeatedForkResponses == {Rejected, Http(202), Http(404)}

RepeatedReadResponses == {Http(200), Http(404), Http(401)}

RepeatedWriteResponses == {Http(200), Http(409)}

RepeatedPRBodies(response) ==
    {body \in PRBodies(response) : body.html_url # "pull/2"}

ForkError == "Failed to fork repository"
ReadError == "Could not read CONTRIBUTORS.md file"
\* variant: the guard throws the message of the failed read
DuplicateError_asReadError == ReadError

\* the first sentence of the message
DuplicateError == "You've already completed this course!"
CommitError == "Failed to commit changes"
PRError == "Failed to create Pull Request"
\* messages of the exceptions the browser raises
NetworkError == "Failed to fetch"
JsonError == "Unexpected token"
BtoaError == "InvalidCharacterError"

\* ------------------------------------------------------------------------
\* SECTION 8: PR submission
\* ------------------------------------------------------------------------
NoPut == [sent |-> FALSE]

NoBody == [html_url |-> "", url |-> "", message |-> ""]

\* no answer of the read has come in
NoFile == [content |-> btoa(<<>>), sha |-> 0]

\* variant: the file data of the run before is kept for the new run
NewRun_keepsFileData(name, githubUsername, token) ==
    [name |-> name, user |-> githubUsername, token |-> token,
     pc |-> "fork",
     fork |-> NoResponse, read |-> NoResponse,
     write |-> NoResponse, pr |-> NoResponse,
     fileBody |-> NoFile, fileJson |-> "none",
     prBody |-> NoBody, prJson |-> "none",
     content |-> IF runs = <<>> THEN <<>> ELSE runs[Len(runs)].content,
     sha |-> IF runs = <<>> THEN 0 ELSE runs[Len(runs)].sha,
     put |-> NoPut,
     alert |-> "", url |-> "",
     trace |-> <<"status1", "fork">>]

\* the locals of one submitPullRequest invocation
NewRun(name, githubUsername, token) ==
    [name |-> name, user |-> githubUsername, token |-> token,
     pc |-> "fork",
     fork |-> NoResponse, read |-> NoResponse,
     write |-> NoResponse, pr |-> NoResponse,
     fileBody |-> NoFile, fileJson |-> "none",
     prBody |-> NoBody, prJson |-> "none",
     content |-> <<>>, sha |-> 0, put |-> NoPut,
     alert |-> "", url |-> "",
     trace |-> <<"status1", "fork">>]

\* where a run is suspended: "json:read" and "json:pr" are the awaits of
\* fileResponse.json() and prResponse.json()
NonTerminal ==
    {"fork", "sleep", "read", "json:read", "commit", "pr", "json:pr"}

\* variant: the button stays disabled after the alert
catch_noReenable(i, run, message) ==
    /\ runs' = [runs EXCEPT ![i] = [run EXCEPT !.pc = "failed",
                                               !.alert = message]]
    /\ UNCHANGED <<submitDisabled, formHidden, ledger, sha>>

\* the catch block: alert(error.message), re-enable the button
catch(i, run, message) ==
    /\ runs' = [runs EXCEPT ![i] = [run EXCEPT !.pc = "failed",
                                               !.alert = message]]
    /\ submitDisabled' = FALSE
    /\ UNCHANGED <<formHidden, ledger, sha>>

\* variant: the answer of the fork call is not looked at
forkFailed_unchecked(forkResponse) == FALSE

\* variant: the exemption of 409 is missing
forkFailed_no409(forkResponse) == ~ok(forkResponse)

\* variant: only authentication and server failures count
forkFailed_authOrServer(forkResponse) ==
    \/ forkResponse.status \in {401, 403}
    \/ forkResponse.status >= 500

\* if (!forkResponse.ok && forkResponse.status !== 409)
forkFailed(forkResponse) == ~ok(forkResponse) /\ forkResponse.status # 409

\* if (!fileResponse.ok)
readFailed(fileResponse) == ~ok(fileResponse)

\* variant: startsWith in place of includes
alreadyListed_startsWith(currentContent, githubUsername) ==
    /\ Len(marker(githubUsername)) <= Len(currentContent)
    /\ SubSeq(currentContent, 1, Len(marker(githubUsername)))
           = marker(githubUsername)

\* variant: the content read is not searched for the learner
alreadyListed_unchecked(currentContent, githubUsername) == FALSE

\* if (currentContent.includes(`@${githubUsername}`))
alreadyListed(currentContent, githubUsername) ==
    includes(currentContent, marker(githubUsername))

\* variant: the answer of the PUT is not looked at
commitFailed_unchecked(commitResponse) == FALSE

\* if (!commitResponse.ok)
commitFailed(commitResponse) == ~ok(commitResponse)

\* if (!prResponse.ok)
prFailed(prResponse) == ~ok(prResponse)

\* errorData.message || 'Failed to create Pull Request'
prErrorMessage(errorData) ==
    IF errorData.message # "" THEN errorData.message ELSE PRError

\* variant: the API url of the pull request in place of its html_url
successUrl_apiUrl(prData) == prData.url

\* the URL handed to showSuccessMessage
successUrl(prData) == prData.html_url

\* variant: the button is left enabled while the run is under way
submitButton_leftEnabled == FALSE

\* submitButton.disabled = true, once the inputs are validated
submitButton_disabled == TRUE

\* click on #submit-pr-btn with the two form fields filled as given
submitPullRequest(rawName, rawUser) ==
    /\ shown = SectionId(LastModule)
    /\ ~submitDisabled
    /\ ~formHidden
    /\ Len(runs) < MaxRuns
    /\ LET name == trim(rawName)
           githubUsername == trim(rawUser)
           token == trim(tokenField)
       IN  IF name = <<>> \/ githubUsername = <<>> \/ token = <<>>
           THEN UNCHANGED <<prVars, search, appended, module1>>
           ELSE /\ submitDisabled' = submitButton_disabled
                /\ runs' = Append(runs, NewRun(name, githubUsername, token))
                /\ UNCHANGED <<formHidden, ledger, sha>>
    /\ UNCHANGED <<navVars, search, appended, module1>>

\* Step 1 answered: the fork call settles
ForkResponse(i, response) ==
    /\ runs[i].pc = "fork"
    /\ LET run == [runs[i] EXCEPT !.fork = response]
       IN  IF response.kind = "rejected"
           THEN catch(i, run, NetworkError)
           ELSE IF forkFailed(response)
           THEN catch(i, run, ForkError)
           ELSE /\ runs' = [runs EXCEPT ![i] =
                      [run EXCEPT !.pc = "sleep",
                                  !.trace = @ \o <<"status2", "delay">>]]
                /\ UNCHANGED <<submitDisabled, formHidden, ledger, sha>>
    /\ UNCHANGED <<navVars, search, appended, module1>>

\* variant: the status of step 3 is shown once the read is under way
SleepDone_statusAfterCall(i) ==
    /\ runs[i].pc = "sleep"
    /\ runs' = [runs EXCEPT ![i] =
           [@ EXCEPT !.pc = "read", !.trace = @ \o <<"read", "status3">>]]
    /\ UNCHANGED <<submitDisabled, formHidden, ledger, sha>>
    /\ UNCHANGED <<navVars, search, appended, module1>>

\* Step 2 over: sleep(5000) resolves and the read is issued
SleepDone(i) ==
    /\ runs[i].pc = "sleep"
    /\ runs' = [runs EXCEPT ![i] =
           [@ EXCEPT !.pc = "read", !.trace = @ \o <<"status3", "read">>]]
    /\ UNCHANGED <<submitDisabled, formHidden, ledger, sha>>
    /\ UNCHANGED <<navVars, search, appended, module1>>

\* the body of the PUT: content: btoa(updatedContent), sha: fileData.sha
putBody(updatedContent, fileData) ==
    [sent |-> TRUE, content |-> btoa(updatedContent), sha |-> fileData.sha]

\* variant: a read that failed is issued again
ReadResponse_pollsOnFailure(i, response) ==
    /\ runs[i].pc = "read"
    /\ LET run == [runs[i] EXCEPT !.read = response]
       IN  IF response.kind = "rejected" \/ readFailed(response)
           THEN /\ runs' = [runs EXCEPT ![i] = run]
                /\ UNCHANGED <<submitDisabled, formHidden, ledger, sha>>
           ELSE /\ runs' = [runs EXCEPT ![i] =
                      [run EXCEPT
                          !.pc = "json:read",
                          !.fileBody = [content |-> btoa(ledger[run.user]),
                                        sha |-> sha[run.user]]]]
                /\ UNCHANGED <<submitDisabled, formHidden, ledger, sha>>
    /\ UNCHANGED <<navVars, search, appended, module1>>

\* Step 3 answered: the fetch of the file settles; on a 2xx the body the
\* fork sent is left to fileResponse.json()
ReadResponse(i, response) ==
    /\ runs[i].pc = "read"
    /\ LET run == [runs[i] EXCEPT !.read = response]
       IN  IF response.kind = "rejected"
           THEN catch(i, run, NetworkError)
           ELSE IF readFailed(response)
           THEN catch(i, run, ReadError)
           ELSE /\ runs' = [runs EXCEPT ![i] =
                      [run EXCEPT
                          !.pc = "json:read",
                          !.fileBody = [content |-> btoa(ledger[run.user]),
                                        sha |-> sha[run.user]]]]
                /\ UNCHANGED <<submitDisabled, formHidden, ledger, sha>>
    /\ UNCHANGED <<navVars, search, appended, module1>>

\* fileResponse.json() settles: it rejects on a body that is not JSON,
\* else steps 4 and 5 up to the PUT, the entry dated in the locale of the
\* browser
FileData(i, parsed, locale) ==
    /\ runs[i].pc = "json:read"
    /\ LET run == [runs[i] EXCEPT
                      !.fileJson = IF parsed THEN "resolved" ELSE "rejected"]
           fileData == run.fileBody
           currentContent == atob(fileData.content)
           checked == [run EXCEPT !.content = currentContent,
                                  !.sha = fileData.sha,
                                  !.trace = @ \o <<"status4", "check">>]
           entry == newEntry(run.user, run.name, Today(locale))
           updatedContent == appendEntry(currentContent, entry)
       IN  IF ~parsed
           THEN catch(i, run, JsonError)
           ELSE IF alreadyListed(currentContent, run.user)
           THEN catch(i, checked, DuplicateError)
           ELSE IF btoaThrows(updatedContent)
           THEN catch(i, [checked EXCEPT !.trace = @ \o <<"status5">>],
                      BtoaError)
           ELSE /\ runs' = [runs EXCEPT ![i] =
                      [checked EXCEPT
                          !.pc = "commit",
                          !.put = putBody(updatedContent, fileData),
                          !.trace = @ \o <<"status5", "write">>]]
                /\ UNCHANGED <<submitDisabled, formHidden, ledger, sha>>
    /\ UNCHANGED <<navVars, search, appended, module1>>

\* variant: a refused commit sends the run back to read the file again
CommitResponse_rereadOnFailure(i, response) ==
    /\ runs[i].pc = "commit"
    /\ ok(response) => runs[i].put.sha = sha[runs[i].user]
    /\ LET run == [runs[i] EXCEPT !.write = response]
       IN  IF response.kind = "rejected"
           THEN catch(i, run, NetworkError)
           ELSE IF commitFailed(response)
           THEN /\ runs' = [runs EXCEPT ![i] =
                      [run EXCEPT !.pc = "read",
                                  !.trace = @ \o <<"status3", "read">>]]
                /\ UNCHANGED <<submitDisabled, formHidden, ledger, sha>>
           ELSE /\ runs' = [runs EXCEPT ![i] =
                      [run EXCEPT !.pc = "pr",
                                  !.trace = @ \o <<"status6", "pr">>]]
                /\ ledger' = [ledger EXCEPT ![run.user] = atob(run.put.content)]
                /\ sha' = [sha EXCEPT ![run.user] = @ + 1]
                /\ UNCHANGED <<submitDisabled, formHidden>>
    /\ UNCHANGED <<navVars, search, appended, module1>>

\* Step 5 answered: a 2xx means the fork took the commit
CommitResponse(i, response) ==
    /\ runs[i].pc = "commit"
    /\ ok(response) => runs[i].put.sha = sha[runs[i].user]
    /\ LET run == [runs[i] EXCEPT !.write = response]
       IN  IF response.kind = "rejected"
           THEN catch(i, run, NetworkError)
           ELSE IF commitFailed(response)
           THEN catch(i, run, CommitError)
           ELSE /\ runs' = [runs EXCEPT ![i] =
                      [run EXCEPT !.pc = "pr",
                                  !.trace = @ \o <<"status6", "pr">>]]
                /\ ledger' = [ledger EXCEPT ![run.user] = atob(run.put.content)]
                /\ sha' = [sha EXCEPT ![run.user] = @ + 1]
                /\ UNCHANGED <<submitDisabled, formHidden>>
    /\ UNCHANGED <<navVars, search, appended, module1>>

\* Step 6 answered: the fetch of POST /pulls settles; the body of the
\* answer is left to prResponse.json(), on a 2xx and on any other status
PRResponse(i, response, body) ==
    /\ runs[i].pc = "pr"
    /\ LET run == [runs[i] EXCEPT !.pr = response]
       IN  IF response.kind = "rejected"
           THEN catch(i, run, NetworkError)
           ELSE /\ runs' = [runs EXCEPT ![i] =
                      [run EXCEPT !.pc = "json:pr", !.prBody = body]]
                /\ UNCHANGED <<submitDisabled, formHidden, ledger, sha>>
    /\ UNCHANGED <<navVars, search, appended, module1>>

\* variant: the button is enabled again after the success message
PRData_reenables(i, parsed) ==
    /\ runs[i].pc = "json:pr"
    /\ LET run == [runs[i] EXCEPT
                      !.prJson = IF parsed THEN "resolved" ELSE "rejected"]
       IN  IF ~parsed
           THEN catch(i, run, JsonError)
           ELSE IF prFailed(run.pr)
           THEN catch(i, run, prErrorMessage(run.prBody))
           ELSE /\ runs' = [runs EXCEPT ![i] =
                      [run EXCEPT !.pc = "succeeded",
                                  !.url = successUrl(run.prBody)]]
                /\ formHidden' = TRUE
                /\ submitDisabled' = FALSE
                /\ UNCHANGED <<ledger, sha>>
    /\ UNCHANGED <<navVars, search, appended, module1>>

\* prResponse.json() settles: it rejects on a body that is not JSON; else
\* the message of errorData is thrown on a non-2xx, and on a 2xx
\* showSuccessMessage(name, prData.html_url) is called
PRData(i, parsed) ==
    /\ runs[i].pc = "json:pr"
    /\ LET run == [runs[i] EXCEPT
                      !.prJson = IF parsed THEN "resolved" ELSE "rejected"]
       IN  IF ~parsed
           THEN catch(i, run, JsonError)
           ELSE IF prFailed(run.pr)
           THEN catch(i, run, prErrorMessage(run.prBody))
           ELSE /\ runs' = [runs EXCEPT ![i] =
                      [run EXCEPT !.pc = "succeeded",
                                  !.url = successUrl(run.prBody)]]
                /\ formHidden' = TRUE
                /\ UNCHANGED <<submitDisabled, ledger, sha>>
    /\ UNCHANGED <<navVars, search, appended, module1>>

\* the PUT of a run whose page is gone: the request was sent, and the fork
\* may still take the commit; nobody reads its answer
PutWithoutPage(i) ==
    /\ runs[i].pc = "abandoned"
    /\ runs[i].put.sent
    /\ runs[i].write = NoResponse
    /\ runs[i].put.sha = sha[runs[i].user]
    /\ runs' = [runs EXCEPT ![i].write = Http(200)]
    /\ ledger' = [ledger EXCEPT ![runs[i].user] = atob(runs[i].put.content)]
    /\ sha' = [sha EXCEPT ![runs[i].user] = @ + 1]
    /\ UNCHANGED <<submitDisabled, formHidden>>
    /\ UNCHANGED <<navVars, search, appended, module1>>

\* ------------------------------------------------------------------------
\* Page load: the DOMContentLoaded handler
\* ------------------------------------------------------------------------
DOMContentLoaded(item) ==
    LET l == loadProgress(item)
    IN  [up |-> l.up, cur |-> l.cur, gemini |-> l.gemini, token |-> l.token,
         shown |-> showSection(SectionId(l.cur)),
         sidebar |-> updateSidebar(l.cur, l.up.completedModules)]

\* the own keys of topicMap and of fallbackData in github-api.js
FallbackTopics == {"game-development", "web-development", "data-science",
                   "mobile-apps", "devops", "exploring"}

\* module 1 as the page is loaded: nothing asked for, nothing displayed
NoGeneration ==
    [requests |-> <<>>,
     aiResponse |-> [kind |-> "none", interest |-> ""],
     projects |-> [kind |-> "none", topic |-> "", repos |-> <<>>]]

\* the generations of module 1 that still await an answer
Generating ==
    {i \in 1..Len(module1.requests) : module1.requests[i].pc # "done"}

\* nothing has been appended
NoAppend == [called |-> FALSE, content |-> <<>>, entry |-> <<>>,
             result |-> <<>>]

\* no search has been called
NoSearch ==
    [pc |-> "idle", fn |-> "", topic |-> "", skillLevel |-> "",
     query |-> [kind |-> "own", value |-> ""], label |-> "",
     response |-> NoResponse,
     data |-> [parsed |-> FALSE, hasItems |-> FALSE, items |-> <<>>],
     result |-> [kind |-> "none", value |-> <<>>]]

\* a record an earlier session left behind after reaching the last module
RecordAtLastModule ==
    Item([geminiApiKey |-> <<"k">>, githubToken |-> <<"k">>,
          interest |-> "web-development",
          skillLevel |-> "some-experience",
          gitExperience |-> "used-a-little",
          completedModules |-> <<0, 1, 2, 3>>,
          currentModule |-> LastModule])

Init ==
    /\ stored \in {NoRecord, RecordAtLastModule}
    /\ userProgress = DOMContentLoaded(stored).up
    /\ currentModule = DOMContentLoaded(stored).cur
    /\ geminiField = DOMContentLoaded(stored).gemini
    /\ tokenField = DOMContentLoaded(stored).token
    /\ shown = DOMContentLoaded(stored).shown
    /\ sidebar = DOMContentLoaded(stored).sidebar
    /\ submitDisabled = FALSE
    /\ formHidden = FALSE
    /\ lastEvent = [op |-> "load", arg |-> 0, done |-> TRUE]
    /\ runs = <<>>
    /\ \E t \in Templates : ledger = [u \in Users |-> t]
    /\ sha = [u \in Users |-> 1]
    /\ search = NoSearch
    /\ appended = NoAppend
    /\ module1 = NoGeneration

\* the page as loaded where no step reads CONTRIBUTORS.md: the navigation,
\* the searches, the generation of module 1 and the append on a given
\* text leave the ledger of the forks alone, so one ledger stands for all
InitPage == Init /\ \A u \in Users : ledger[u] = Header

\* the learner reloads the page: a new page over the same localStorage.
\* What the old page awaited is never continued; the requests it had sent
\* stay sent
Reload ==
    /\ runs' = [i \in 1..Len(runs) |->
                  IF runs[i].pc \in NonTerminal
                  THEN [runs[i] EXCEPT !.pc = "abandoned"]
                  ELSE runs[i]]
    /\ search' = NoSearch
    /\ module1' = NoGeneration
    /\ UNCHANGED <<stored, ledger, sha, appended>>
    /\ userProgress' = DOMContentLoaded(stored).up
    /\ currentModule' = DOMContentLoaded(stored).cur
    /\ geminiField' = DOMContentLoaded(stored).gemini
    /\ tokenField' = DOMContentLoaded(stored).token
    /\ shown' = DOMContentLoaded(stored).shown
    /\ sidebar' = DOMContentLoaded(stored).sidebar
    /\ submitDisabled' = FALSE
    /\ formHidden' = FALSE
    /\ lastEvent' = [op |-> "load", arg |-> 0, done |-> TRUE]

\* ------------------------------------------------------------------------
\* Specifications
\* ------------------------------------------------------------------------
NextNav ==
    \/ \E g \in KeyTexts, t \in KeyTexts : EnterKeys(g, t)
    \/ startLearning
    \/ \E k \in 1..3 : NextModuleClick(k)
    \/ \E k \in 2..3 : PrevModuleClick(k)
    \/ \E index \in Modules : SidebarClick(index)
    \/ \E k \in 1..3 : \E choice \in Choices[k] :
          /\ (k = 1 /\ choice # "") =>
                Len(module1.requests) < MaxNavRequests
          /\ generateModuleContent(k, choice)
    \/ Reload

Next ==
    \/ \E n \in RepeatedNameTexts, u \in UserTexts : submitPullRequest(n, u)
    \/ \E i \in 1..Len(runs), r \in RepeatedForkResponses : ForkResponse(i, r)
    \/ \E i \in 1..Len(runs) : SleepDone(i)
    \/ \E i \in 1..Len(runs), r \in RepeatedReadResponses : ReadResponse(i, r)
    \/ \E i \in 1..Len(runs), parsed \in BOOLEAN, l \in RepeatedLocales :
          FileData(i, parsed, l)
    \/ \E i \in 1..Len(runs), r \in RepeatedWriteResponses :
          CommitResponse(i, r)
    \/ \E i \in 1..Len(runs), r \in PRResponses :
          \E body \in RepeatedPRBodies(r) : PRResponse(i, r, body)
    \/ \E i \in 1..Len(runs), parsed \in BOOLEAN : PRData(i, parsed)
    \/ \E i \in 1..Len(runs) : PutWithoutPage(i)
    \/ Reload

\* direct calls of the two navigation functions, with any stage number
CallGoToModule(n) ==
    /\ goToModule(userProgress, n)
    /\ lastEvent' = [op |-> "goToModule", arg |-> n, done |-> TRUE]
    /\ UNCHANGED <<geminiField, tokenField>>
    /\ UNCHANGED <<prVars, search, appended, module1>>

CallCompleteModule(n) ==
    /\ completeModule(userProgress, n)
    /\ lastEvent' = [op |-> "completeModule", arg |-> n + 1, done |-> TRUE]
    /\ UNCHANGED <<geminiField, tokenField>>
    /\ UNCHANGED <<prVars, search, appended, module1>>

NextCalls ==
    \/ \E n \in Modules : CallGoToModule(n)
    \/ \E n \in 0..(LastModule - 1) : CallCompleteModule(n)
    \/ \E index \in Modules : SidebarClick(index)

\* the learner's navigation through the modules
SpecNav == InitPage /\ [][NextNav]_vars

\* the pull-request submission, repeated on a page that shows the last
\* module
Spec == Init /\ [][Next]_vars

\* the pull-request submission with every answer a call can get
NextLive ==
    \/ \E n \in NameTexts, u \in UserTexts :
          Len(runs) < MaxLiveRuns /\ submitPullRequest(n, u)
    \/ \E i \in 1..Len(runs), r \in ForkResponses : ForkResponse(i, r)
    \/ \E i \in 1..Len(runs) : SleepDone(i)
    \/ \E i \in 1..Len(runs), r \in ReadResponses : ReadResponse(i, r)
    \/ \E i \in 1..Len(runs), r \in WriteResponses : CommitResponse(i, r)
    \/ \E i \in 1..Len(runs), parsed \in BOOLEAN, l \in Locales :
          FileData(i, parsed, l)
    \/ \E i \in 1..Len(runs), r \in PRResponses :
          \E body \in PRBodies(r) : PRResponse(i, r, body)
    \/ \E i \in 1..Len(runs), parsed \in BOOLEAN : PRData(i, parsed)
    \/ \E i \in 1..Len(runs) : PutWithoutPage(i)
    \/ Reload

Answers ==
    /\ WF_vars(\E i \in 1..Len(runs), r \in ForkResponses : ForkResponse(i, r))
    /\ WF_vars(\E i \in 1..Len(runs) : SleepDone(i))
    /\ WF_vars(\E i \in 1..Len(runs), r \in ReadResponses : ReadResponse(i, r))
    /\ WF_vars(\E i \in 1..Len(runs), r \in WriteResponses :
                  CommitResponse(i, r))
    /\ WF_vars(\E i \in 1..Len(runs), parsed \in BOOLEAN, l \in Locales :
                  FileData(i, parsed, l))
    /\ WF_vars(\E i \in 1..Len(runs), r \in PRResponses :
                  \E body \in PRBodies(r) : PRResponse(i, r, body))
    /\ WF_vars(\E i \in 1..Len(runs), parsed \in BOOLEAN : PRData(i, parsed))

SpecRun == Init /\ [][NextLive]_vars

\* the same when every call made is answered or rejected in the end and
\* the timer of sleep fires
SpecLive == SpecRun /\ Answers

\* goToModule and completeModule as functions, called with any argument
SpecCalls == InitPage /\ [][NextCalls]_vars

\* ------------------------------------------------------------------------
\* github-api.js: the two searches and their fallback data
\* ------------------------------------------------------------------------
\* property names every object literal inherits from Object.prototype
\* the methods among them
ObjectPrototype ==
    {"constructor", "toString", "toLocaleString", "valueOf",
     "hasOwnProperty", "isPrototypeOf", "propertyIsEnumerable",
     "__defineGetter__", "__defineSetter__",
     "__lookupGetter__", "__lookupSetter__"}

\* the accessor among them, which yields Object.prototype itself
ProtoAccessor == "__proto__"

\* object[key] on an object literal with the own properties table
Lookup(table, key) ==
    IF key \in DOMAIN table THEN [kind |-> "own", value |-> table[key]]
    ELSE IF key \in ObjectPrototype THEN [kind |-> "function", value |-> key]
    ELSE IF key = ProtoAccessor THEN [kind |-> "object", value |-> key]
    ELSE [kind |-> "undefined", value |-> ""]

\* the || of a looked-up value with a default: every own value of the
\* tables below is truthy, and so is an inherited function
OrElse(found, default) ==
    IF found.kind = "undefined" THEN [kind |-> "own", value |-> default]
    ELSE found

RECURSIVE split(_, _)
split(text, separator) ==
    IF separator \in Range(text)
    THEN LET i == CHOOSE i \in 1..Len(text) :
                     /\ text[i] = separator
                     /\ \A j \in 1..(i - 1) : text[j] # separator
         IN  <<SubSeq(text, 1, i - 1)>>
                 \o split(SubSeq(text, i + 1, Len(text)), separator)
    ELSE <<text>>

\* parts.slice(-2)
sliceLastTwo(parts) ==
    IF Len(parts) <= 2 THEN parts ELSE SubSeq(parts, Len(parts) - 1, Len(parts))

RECURSIVE join(_, _)
join(parts, separator) ==
    IF parts = <<>> THEN <<>>
    ELSE IF Len(parts) = 1 THEN parts[1]
    ELSE parts[1] \o <<separator>> \o join(Tail(parts), separator)

repoTopicMap ==
    [topic \in FallbackTopics |->
        IF topic = "game-development" THEN "game OR gamedev OR godot OR unity"
        ELSE IF topic = "web-development"
        THEN "web OR javascript OR react OR vue"
        ELSE IF topic = "data-science"
        THEN "data-science OR machine-learning OR python"
        ELSE IF topic = "mobile-apps"
        THEN "mobile OR android OR ios OR react-native"
        ELSE IF topic = "devops" THEN "devops OR kubernetes OR docker OR ci-cd"
        ELSE "beginner OR first-timers-only OR good-first-issue"]

issueTopicMap ==
    [topic \in FallbackTopics |->
        IF topic = "game-development" THEN "game OR gamedev OR unity OR godot"
        ELSE IF topic = "web-development"
        THEN "javascript OR typescript OR react OR vue OR web"
        ELSE IF topic = "data-science" THEN "python OR data OR ml OR ai"
        ELSE IF topic = "mobile-apps"
        THEN "android OR ios OR mobile OR react-native"
        ELSE IF topic = "devops" THEN "docker OR kubernetes OR devops OR ci-cd"
        ELSE "beginner OR starter"]

labelQuery(skillLevel) ==
    IF skillLevel = "total-beginner"
    THEN "good-first-issue OR beginner OR documentation"
    ELSE IF skillLevel = "experienced" THEN "good-first-issue OR help-wanted"
    ELSE "good-first-issue"

fallbackData ==
    [topic \in FallbackTopics |->
        IF topic = "game-development" THEN
          <<[name |-> "godot", fullName |-> "godotengine/godot",
           description |-> "Free and open source 2D and 3D game engine",
           stars |-> 75000, url |-> "https://github.com/godotengine/godot",
           language |-> "C++"],
            [name |-> "bevy", fullName |-> "bevyengine/bevy",
           description |-> "A refreshingly simple data-driven game engine built in Rust",
           stars |-> 28000, url |-> "https://github.com/bevyengine/bevy",
           language |-> "Rust"],
            [name |-> "phaser", fullName |-> "photonstorm/phaser",
           description |-> "Desktop and Mobile HTML5 game framework",
           stars |-> 35000, url |-> "https://github.com/photonstorm/phaser",
           language |-> "JavaScript"]>>
        ELSE IF topic = "web-development" THEN
          <<[name |-> "react", fullName |-> "facebook/react",
           description |-> "A JavaScript library for building user interfaces",
           stars |-> 220000, url |-> "https://github.com/facebook/react",
           language |-> "JavaScript"],
            [name |-> "vue", fullName |-> "vuejs/vue",
           description |-> "Progressive JavaScript Framework",
           stars |-> 205000, url |-> "https://github.com/vuejs/vue",
           language |-> "JavaScript"],
            [name |-> "tailwindcss", fullName |-> "tailwindlabs/tailwindcss",
           description |-> "A utility-first CSS framework",
           stars |-> 75000, url |-> "https://github.com/tailwindlabs/tailwindcss",
           language |-> "CSS"]>>
        ELSE IF topic = "data-science" THEN
          <<[name |-> "tensorflow", fullName |-> "tensorflow/tensorflow",
           description |-> "An Open Source Machine Learning Framework",
           stars |-> 180000, url |-> "https://github.com/tensorflow/tensorflow",
           language |-> "Python"],
            [name |-> "scikit-learn", fullName |-> "scikit-learn/scikit-learn",
           description |-> "Machine learning in Python",
           stars |-> 57000, url |-> "https://github.com/scikit-learn/scikit-learn",
           language |-> "Python"],
            [name |-> "pandas", fullName |-> "pandas-dev/pandas",
           description |-> "Flexible and powerful data analysis tool",
           stars |-> 40000, url |-> "https://github.com/pandas-dev/pandas",
           language |-> "Python"]>>
        ELSE IF topic = "mobile-apps" THEN
          <<[name |-> "react-native", fullName |-> "facebook/react-native",
           description |-> "A framework for building native apps with React",
           stars |-> 115000, url |-> "https://github.com/facebook/react-native",
           language |-> "JavaScript"],
            [name |-> "flutter", fullName |-> "flutter/flutter",
           description |-> "Google's mobile UI framework",
           stars |-> 160000, url |-> "https://github.com/flutter/flutter",
           language |-> "Dart"],
            [name |-> "ionic-framework", fullName |-> "ionic-team/ionic-framework",
           description |-> "A powerful cross-platform UI toolkit",
           stars |-> 50000, url |-> "https://github.com/ionic-team/ionic-framework",
           language |-> "TypeScript"]>>
        ELSE IF topic = "devops" THEN
          <<[name |-> "kubernetes", fullName |-> "kubernetes/kubernetes",
           description |-> "Container orchestration system",
           stars |-> 105000, url |-> "https://github.com/kubernetes/kubernetes",
           language |-> "Go"],
            [name |-> "docker", fullName |-> "moby/moby",
           description |-> "Open source containerization platform",
           stars |-> 67000, url |-> "https://github.com/moby/moby",
           language |-> "Go"],
            [name |-> "ansible", fullName |-> "ansible/ansible",
           description |-> "IT automation platform",
           stars |-> 60000, url |-> "https://github.com/ansible/ansible",
           language |-> "Python"]>>
        ELSE
          <<[name |-> "first-contributions", fullName |-> "firstcontributions/first-contributions",
           description |-> "Help beginners make their first contribution",
           stars |-> 40000, url |-> "https://github.com/firstcontributions/first-contributions",
           language |-> "Multiple"],
            [name |-> "awesome-for-beginners", fullName |-> "MunGell/awesome-for-beginners",
           description |-> "List of projects with good first issues",
           stars |-> 60000, url |-> "https://github.com/MunGell/awesome-for-beginners",
           language |-> "Multiple"],
            [name |-> "public-apis", fullName |-> "public-apis/public-apis",
           description |-> "A collective list of free APIs",
           stars |-> 280000, url |-> "https://github.com/public-apis/public-apis",
           language |-> "Python"]>>
    ]

getFallbackRepos(topic) ==
    LET found == Lookup(fallbackData, topic)
    IN  IF found.kind = "undefined"
        THEN [kind |-> "list", value |-> fallbackData["exploring"]]
        ELSE IF found.kind = "own"
        THEN [kind |-> "list", value |-> found.value]
        ELSE found

getFallbackIssues(interest, locale) ==
    [kind |-> "list",
     value |->
       <<[title |-> "Update documentation for installation steps",
          repo |-> "example/awesome-project",
          url |-> "https://github.com/example/awesome-project/issues/123",
          labels |-> <<"good first issue", "documentation">>,
          createdAt |-> Today(locale)],
         [title |-> "Fix typo in README",
          repo |-> "example/cool-library",
          url |-> "https://github.com/example/cool-library/issues/456",
          labels |-> <<"good first issue">>,
          createdAt |-> Today(locale)],
         [title |-> "Add example for beginners",
          repo |-> "example/learning-resource",
          url |-> "https://github.com/example/learning-resource/issues/789",
          labels |-> <<"good first issue", "help wanted">>,
          createdAt |-> Today(locale)]>>]

\* answers of GET /search/...: the call rejects, or answers with a status
SearchResponses == {Rejected, Http(200), Http(403), Http(500)}

\* a repository of the search result; "" stands for null
RepoItems ==
    {[name |-> "react", full_name |-> "facebook/react",
      description |-> d, stargazers_count |-> 5,
      html_url |-> "https://github.com/facebook/react", language |-> l] :
        d \in {"", "The library"}, l \in {"", "JavaScript"}}

Defined(text) == [defined |-> TRUE, value |-> text]
Undefined == [defined |-> FALSE, value |-> <<>>]

\* texts of created_at whose day depends on the time zone of the browser,
\* whose day of the month or hour rolls over, of year 0, with a month
\* that does not exist, and read as month, day and year
RollingDates ==
    {<<"0", "0", "0", "1", "-", "0", "1", "-", "0", "0">>,
     <<"0", "0", "1", "2", "-", "1", "3", "-", "0", "1">>} \cup
    {<<"2", "0", "2", "6", "-", "1", "0", "-", "3", "0", "T", "2", "0", ":", "0", "0", ":", "0", "0", "Z">>,
     <<"2", "0", "2", "6", "-", "1", "1", "-", "0", "1", "T", "0", "3", ":", "0", "0", ":", "0", "0", "Z">>,
     <<"2", "0", "2", "6", "-", "0", "2", "-", "3", "0">>,
     <<"2", "0", "2", "6", "-", "1", "2", "-", "3", "1", "T", "2", "4", ":", "0", "0", ":", "0", "0", "Z">>,
     <<"0", "0", "0", "0", "-", "0", "1", "-", "0", "1">>,
     <<"2", "0", "2", "6", "-", "1", "3", "-", "0", "1">>}

\* an issue of the search result, with or without its repository_url and
\* its labels
IssueItems ==
    {[title |-> "Fix typo",
      repository_url |-> Defined(<<"h", "/", "r", "/", "o", "/", "r">>),
      html_url |-> "https://github.com/o/r/issues/1",
      labels |-> Defined(<<[name |-> "good first issue"]>>),
      created_at |-> c] : c \in RollingDates}
    \cup
    {[title |-> "Fix typo", repository_url |-> u,
      html_url |-> "https://github.com/o/r/issues/1",
      labels |-> l, created_at |-> c] :
        c \in {<<"2", "0", "2", "6", "-", "1", "0", "-", "3", "0", "T", "1", "2", ":", "0", "0", ":", "0", "0", "Z">>,
               <<"2", "0", "2", "5", "-", "0", "1", "-", "0", "2">>, <<>>},
        u \in {Undefined,
               Defined(<<"h", "/", "r", "/", "o", "/", "r">>),
               Defined(<<"r">>)},
        l \in {Undefined, Defined(<<>>),
               Defined(<<[name |-> "good first issue"]>>)}}

\* bodies of an answer: one json() cannot parse, an object without items,
\* an object whose items are drawn from the given set
SearchBodies(Items) ==
    {[parsed |-> FALSE, hasItems |-> FALSE, items |-> <<>>],
     [parsed |-> TRUE, hasItems |-> FALSE, items |-> <<>>],
     [parsed |-> TRUE, hasItems |-> TRUE, items |-> <<>>]}
    \cup {[parsed |-> TRUE, hasItems |-> TRUE, items |-> <<item>>] :
             item \in Items}

\* the callback of data.items.map in searchGitHubRepos
repoOf(repo) ==
    [name |-> repo.name,
     fullName |-> repo.full_name,
     description |-> IF repo.description # "" THEN repo.description
                     ELSE "No description available",
     stars |-> repo.stargazers_count,
     url |-> repo.html_url,
     language |-> IF repo.language # "" THEN repo.language ELSE "Multiple"]

\* the callback of data.items.map in searchGoodFirstIssues
issueThrows(issue) ==
    ~issue.repository_url.defined \/ ~issue.labels.defined

issueOf(issue, locale, offset) ==
    [title |-> issue.title,
     repo |-> join(sliceLastTwo(split(issue.repository_url.value, "/")), "/"),
     url |-> issue.html_url,
     labels |-> [i \in 1..Len(issue.labels.value) |->
                    issue.labels.value[i].name],
     createdAt |-> toLocaleDateString(issue.created_at, locale, offset)]

\* what searchGitHubRepos(topic, token) returns when fetch settles with
\* response and the body of the answer is data
searchGitHubRepos(topic, response, data) ==
    IF response.kind = "rejected" \/ ~ok(response)
       \/ ~data.parsed \/ ~data.hasItems
    THEN getFallbackRepos(topic)
    ELSE [kind |-> "list",
          value |-> [i \in 1..Len(data.items) |-> repoOf(data.items[i])]]

\* what searchGoodFirstIssues(interest, skillLevel, token) returns
searchGoodFirstIssues(interest, skillLevel, response, data, locale, offset) ==
    IF response.kind = "rejected" \/ ~ok(response)
       \/ ~data.parsed \/ ~data.hasItems
       \/ \E i \in 1..Len(data.items) : issueThrows(data.items[i])
    THEN getFallbackIssues(interest, locale)
    ELSE [kind |-> "list",
          value |-> [i \in 1..Len(data.items) |->
                        issueOf(data.items[i], locale, offset)]]

\* the topics the callers are given
Topics ==
    FallbackTopics
        \cup {"", "security", "constructor", "toLocaleString", "__proto__"}

SkillLevels == {"total-beginner", "some-experience", "experienced"}

\* a call of searchGitHubRepos up to its await fetch
CallSearchGitHubRepos(topic) ==
    /\ search.pc \notin {"fetch", "json"}
    /\ search' = [pc |-> "fetch", fn |-> "searchGitHubRepos",
                  topic |-> topic, skillLevel |-> "",
                  query |-> OrElse(Lookup(repoTopicMap, topic),
                                   "good-first-issue"),
                  label |-> "",
                  response |-> NoResponse,
                  data |-> NoSearch.data,
                  result |-> [kind |-> "none", value |-> <<>>]]
    /\ UNCHANGED <<navVars, prVars, appended, module1>>

\* a call of searchGoodFirstIssues up to its await fetch
CallSearchGoodFirstIssues(interest, skillLevel) ==
    /\ search.pc \notin {"fetch", "json"}
    /\ search' = [pc |-> "fetch", fn |-> "searchGoodFirstIssues",
                  topic |-> interest, skillLevel |-> skillLevel,
                  query |-> OrElse(Lookup(issueTopicMap, interest),
                                   "beginner"),
                  label |-> labelQuery(skillLevel),
                  response |-> NoResponse,
                  data |-> NoSearch.data,
                  result |-> [kind |-> "none", value |-> <<>>]]
    /\ UNCHANGED <<navVars, prVars, appended, module1>>

\* the fetch of searchGitHubRepos settles: rejected or not ok, the catch
\* block returns the fallback list; else the body of the answer is awaited
RepoSearchSettles(response) ==
    /\ search.pc = "fetch"
    /\ search.fn = "searchGitHubRepos"
    /\ search' =
          IF response.kind = "rejected" \/ ~ok(response)
          THEN [search EXCEPT
                  !.pc = "returned",
                  !.response = response,
                  !.result = searchGitHubRepos(search.topic, response,
                                               search.data)]
          ELSE [search EXCEPT !.pc = "json", !.response = response]
    /\ UNCHANGED <<navVars, prVars, appended, module1>>

\* response.json() settles; the rest of searchGitHubRepos
RepoSearchData(data) ==
    /\ search.pc = "json"
    /\ search.fn = "searchGitHubRepos"
    /\ search' = [search EXCEPT
                     !.pc = "returned",
                     !.data = data,
                     !.result = searchGitHubRepos(search.topic,
                                                  search.response, data)]
    /\ UNCHANGED <<navVars, prVars, appended, module1>>

\* the fetch of searchGoodFirstIssues settles: rejected or not ok, the
\* catch block returns the fallback list, dated in the locale of the
\* browser; else the body of the answer is awaited
IssueSearchSettles(response, locale, offset) ==
    /\ search.pc = "fetch"
    /\ search.fn = "searchGoodFirstIssues"
    /\ search' =
          IF response.kind = "rejected" \/ ~ok(response)
          THEN [search EXCEPT
                  !.pc = "returned",
                  !.response = response,
                  !.result = searchGoodFirstIssues(search.topic,
                                 search.skillLevel, response, search.data,
                                 locale, offset)]
          ELSE [search EXCEPT !.pc = "json", !.response = response]
    /\ UNCHANGED <<navVars, prVars, appended, module1>>

\* response.json() settles; the rest of searchGoodFirstIssues
IssueSearchData(data, locale, offset) ==
    /\ search.pc = "json"
    /\ search.fn = "searchGoodFirstIssues"
    /\ search' = [search EXCEPT
                     !.pc = "returned",
                     !.data = data,
                     !.result = searchGoodFirstIssues(search.topic,
                                    search.skillLevel, search.response,
                                    data, locale, offset)]
    /\ UNCHANGED <<navVars, prVars, appended, module1>>

NextSearch ==
    \/ \E topic \in Topics : CallSearchGitHubRepos(topic)
    \/ \E interest \in Topics, skillLevel \in SkillLevels :
          CallSearchGoodFirstIssues(interest, skillLevel)
    \/ \E r \in SearchResponses : RepoSearchSettles(r)
    \/ \E data \in SearchBodies(RepoItems) : RepoSearchData(data)
    \/ \E r \in SearchResponses, l \in Locales, o \in Offsets :
          IssueSearchSettles(r, l, o)
    \/ \E data \in SearchBodies(IssueItems), l \in Locales, o \in Offsets :
          IssueSearchData(data, l, o)
    \/ \E g \in KeyTexts, t \in KeyTexts : EnterKeys(g, t)
    \/ startLearning

\* ------------------------------------------------------------------------
\* Step 4 of submitPullRequest on any ledger text
\* ------------------------------------------------------------------------
\* what CONTRIBUTORS.md may hold: a body, with or without white space
\* before and after it
LedgerTexts ==
    {lead \o body \o trail :
        lead \in {<<>>, <<"\n">>, <<" ">>, <<"U+00A0">>},
        body \in {<<>>, <<"#", " ", "C">>,
                  <<"#", " ", "C", "\n">> \o newEntry(Alice, <<"B">>, Today("en-US"))},
        trail \in {<<>>, <<"\n">>, <<"\n", "\n">>, <<" ", "\n">>,
                   <<"\r", "\n">>}}

\* lines 1146-1148 on the content currentContent for the learner given
CallAppendEntry(currentContent, githubUsername, name, locale) ==
    /\ appended' = [called |-> TRUE,
                    content |-> currentContent,
                    entry |-> newEntry(githubUsername, name, Today(locale)),
                    result |-> appendEntry(currentContent,
                                 newEntry(githubUsername, name,
                                          Today(locale)))]
    /\ UNCHANGED <<navVars, prVars, search, module1>>

NextAppend ==
    \E currentContent \in LedgerTexts, githubUsername \in Users,
       name \in {<<"A">>, <<"B">>}, locale \in Locales :
        CallAppendEntry(currentContent, githubUsername, name, locale)

\* the append of step 4 as a function of the ledger text
SpecAppend == InitPage /\ [][NextAppend]_vars

\* ------------------------------------------------------------------------
\* Module 1: generateModule1Content and showGitHubProjects
\* ------------------------------------------------------------------------
\* options of #interest-select, and no option chosen
Interests == {"", "web-development", "data-science"}

\* displayRepos: the message for an empty list, else one item per repo
displayRepos(topic, repos) ==
    IF repos.value = <<>>
    THEN [kind |-> "empty", topic |-> topic, repos |-> <<>>]
    ELSE [kind |-> "list", topic |-> topic, repos |-> repos.value]

\* the fetch of callGeminiAPI for generation i settles: rejected or not
\* ok, the error is displayed; else the body of the answer is awaited
GeminiAnswers(i, answered) ==
    /\ module1.requests[i].pc = "gemini"
    /\ module1' =
          IF answered
          THEN [module1 EXCEPT !.requests[i].pc = "gemini:json"]
          ELSE [module1 EXCEPT
                  !.requests[i].pc = "done",
                  !.aiResponse = [kind |-> "error",
                                  interest |-> module1.requests[i].interest]]
    /\ UNCHANGED <<navVars, prVars, search, appended>>

\* response.json() of generation i settles: the text for its prompt is
\* displayed and showGitHubProjects runs up to the fetch of
\* searchGitHubRepos, or (no JSON, no candidates) the error is displayed
GeminiData(i, parsed) ==
    /\ module1.requests[i].pc = "gemini:json"
    /\ module1' =
          IF parsed
          THEN [module1 EXCEPT
                  !.requests[i].pc = "search",
                  !.requests[i].topic = userProgress.interest,
                  !.aiResponse = [kind |-> "content",
                                  interest |-> module1.requests[i].interest],
                  !.projects = [kind |-> "loading", topic |-> "",
                                repos |-> <<>>]]
          ELSE [module1 EXCEPT
                  !.requests[i].pc = "done",
                  !.aiResponse = [kind |-> "error",
                                  interest |-> module1.requests[i].interest]]
    /\ UNCHANGED <<navVars, prVars, search, appended>>

\* the fetch of searchGitHubRepos for generation i settles: rejected or
\* not ok, the fallback list is displayed; else the body is awaited
ProjectsAnswer(i, response) ==
    /\ module1.requests[i].pc = "search"
    /\ module1' =
          IF response.kind = "rejected" \/ ~ok(response)
          THEN [module1 EXCEPT
                  !.requests[i].pc = "done",
                  !.projects = displayRepos(module1.requests[i].topic,
                                  getFallbackRepos(module1.requests[i].topic))]
          ELSE [module1 EXCEPT !.requests[i].pc = "search:json"]
    /\ UNCHANGED <<navVars, prVars, search, appended>>

\* response.json() of that search settles: displayRepos
ProjectsData(i, data) ==
    /\ module1.requests[i].pc = "search:json"
    /\ module1' =
          [module1 EXCEPT
              !.requests[i].pc = "done",
              !.projects = displayRepos(module1.requests[i].topic,
                              searchGitHubRepos(module1.requests[i].topic,
                                                Http(200), data))]
    /\ UNCHANGED <<navVars, prVars, search, appended>>

\* the answers of the repository search met in module 1
ProjectBodies ==
    {[parsed |-> TRUE, hasItems |-> TRUE, items |-> <<>>]}
    \cup {[parsed |-> TRUE, hasItems |-> TRUE, items |-> <<item>>] :
             item \in {r \in RepoItems : r.description # "" /\ r.language # ""}}

NextGenerate ==
    \/ \E index \in {0, 1} : SidebarClick(index)
    \/ \E choice \in Interests :
          Len(module1.requests) < MaxRequests /\ generateModule1Content(choice)
    \/ \E i \in 1..Len(module1.requests), answered \in BOOLEAN :
          GeminiAnswers(i, answered)
    \/ \E i \in 1..Len(module1.requests), parsed \in BOOLEAN :
          GeminiData(i, parsed)
    \/ \E i \in 1..Len(module1.requests), r \in {Rejected, Http(200)} :
          ProjectsAnswer(i, r)
    \/ \E i \in 1..Len(module1.requests), data \in ProjectBodies :
          ProjectsData(i, data)

\* module 1 with its generate button clicked while answers are awaited
SpecGenerate == InitPage /\ [][NextGenerate]_vars

\* the two searches of github-api.js, called with any topic
SpecSearch == InitPage /\ [][NextSearch]_vars

\* ------------------------------------------------------------------------
\* Vocabulary of the properties
\* ------------------------------------------------------------------------
\* the steps of a run in the order the workflow prescribes
StepOrder == <<"fork", "delay", "read", "check", "write", "pr">>

IsStep(e) == e \in Range(StepOrder)

\* the steps a run has entered so far, in the order it entered them
Steps(run) == SelectSeq(run.trace, IsStep)

IsPrefix(a, b) == Len(a) <= Len(b) /\ a = SubSeq(b, 1, Len(a))

Entered(run, step) == step \in Range(run.trace)

Answered(response) == response.kind # "none"

\* a 2xx answer
Success(response) ==
    /\ response.kind = "http"
    /\ response.status \in 200..299

Occurs(needle, text) ==
    \E i \in 1..Len(text) :
        /\ i + Len(needle) - 1 <= Len(text)
        /\ \A j \in 1..Len(needle) : text[i + j - 1] = needle[j]

\* the lines of a text, without their line feeds
RECURSIVE Lines(_)
Lines(text) ==
    IF text = <<>> THEN <<>>
    ELSE IF \E i \in 1..Len(text) : text[i] = "\n"
    THEN LET n == CHOOSE i \in 1..Len(text) :
                      /\ text[i] = "\n"
                      /\ \A j \in 1..(i - 1) : text[j] # "\n"
         IN  <<SubSeq(text, 1, n - 1)>> \o Lines(SubSeq(text, n + 1, Len(text)))
    ELSE <<text>>

\* the line is a ledger entry whose identity is exactly identity
EntryOf(line, identity) ==
    IsPrefix(<<"-", " ", "[", "@">> \o identity \o <<"]">>, line)

EntryCount(text, identity) ==
    Cardinality({k \in 1..Len(Lines(text)) : EntryOf(Lines(text)[k], identity)})

FailedAtFork(run) == run.pc = "failed" /\ ~Entered(run, "delay")

\* the page that started the run was left while the run was suspended
Abandoned(run) == run.pc = "abandoned"

\* the body of the answer was parsed
FileParsed(run) == Success(run.read) /\ run.fileJson = "resolved"

PullParsed(run) == Answered(run.pr) /\ run.prJson = "resolved"

\* ------------------------------------------------------------------------
\* C1: the steps of every run occur in the order fork, delay, read,
\* duplicate check, write, pull request; a step is entered only after its
\* predecessor succeeded (the delay also after a 409 of the fork), none is
\* entered twice, and a run leaves a non-terminal step only for the next
\* step or for Failed.
\* ------------------------------------------------------------------------
C1_RunInOrder(run) ==
    /\ IsPrefix(Steps(run), StepOrder)
    /\ run.pc = "fork" => Steps(run) = SubSeq(StepOrder, 1, 1)
    /\ run.pc = "sleep" => Steps(run) = SubSeq(StepOrder, 1, 2)
    /\ run.pc \in {"read", "json:read"} => Steps(run) = SubSeq(StepOrder, 1, 3)
    /\ run.pc = "commit" => Steps(run) = SubSeq(StepOrder, 1, 5)
    /\ run.pc \in {"pr", "json:pr", "succeeded"} => Steps(run) = StepOrder
    /\ Entered(run, "delay") =>
          Success(run.fork) \/ run.fork = Http(409)
    /\ Entered(run, "check") => FileParsed(run)
    /\ Entered(run, "write") => ~Occurs(marker(run.user), run.content)
    /\ Entered(run, "pr") => Success(run.write)
    /\ run.pc = "succeeded" => Success(run.pr) /\ PullParsed(run)

\* the moves of a run: to the next step (the read and the pull-request
\* call each followed by the reading of the answer's body), or to Failed.
\* A page load is no move of the run: the run stays where it was left
C1_Suspended ==
    {"fork", "sleep", "read", "json:read", "commit", "pr", "json:pr"}

C1_Edges ==
    {<<"fork", "sleep">>, <<"sleep", "read">>, <<"read", "json:read">>,
     <<"json:read", "commit">>, <<"commit", "pr">>, <<"pr", "json:pr">>,
     <<"json:pr", "succeeded">>}
        \cup {<<p, "failed">> : p \in C1_Suspended}
        \cup {<<p, "abandoned">> : p \in C1_Suspended}

C1_StepOrder ==
    /\ [](\A i \in 1..Len(runs) : C1_RunInOrder(runs[i]))
    /\ [][/\ Len(runs') >= Len(runs)
          /\ \A i \in 1..Len(runs) :
                \/ runs'[i].pc = runs[i].pc
                \/ <<runs[i].pc, runs'[i].pc>> \in C1_Edges
          /\ \A i \in (Len(runs) + 1)..Len(runs') : runs'[i].pc = "fork"
         ]_vars

\* a run went through all six steps after a fork that answered 202
C1_Witness ==
    \E i \in 1..Len(runs) :
        /\ runs[i].pc = "succeeded"
        /\ runs[i].fork = Http(202)
        /\ Steps(runs[i]) = StepOrder

\* ------------------------------------------------------------------------
\* C2: when the ledger read from the fork already contains the learner's
\* identity, the run is Failed with the "already completed" message and
\* neither the PUT nor the pull-request call was issued.
\* ------------------------------------------------------------------------
C2_DuplicateStopsBeforeWrite ==
    \A i \in 1..Len(runs) :
        (Success(runs[i].read) /\ Occurs(marker(runs[i].user), runs[i].content))
        => /\ runs[i].pc = "failed"
           /\ runs[i].alert = DuplicateError
           /\ ~runs[i].put.sent
           /\ ~Entered(runs[i], "write")
           /\ ~Entered(runs[i], "pr")
           /\ ~Answered(runs[i].write)
           /\ ~Answered(runs[i].pr)

C2_Witness ==
    \E i \in 1..Len(runs) :
        /\ Success(runs[i].read)
        /\ Occurs(marker(runs[i].user), runs[i].content)
        /\ runs[i].alert = DuplicateError

\* ------------------------------------------------------------------------
\* C3: a failed fork (other than 409), a failed read or a failed write
\* ends the run in Failed and no call of a later step is issued: no read
\* after a failed fork, no write after a failed read, no pull-request call
\* after a failed write.
\* ------------------------------------------------------------------------
C3_FailureTerminates ==
    \A i \in 1..Len(runs) :
        LET run == runs[i]
        IN  /\ (Answered(run.fork) /\ ~Success(run.fork)
                    /\ run.fork # Http(409))
               => /\ run.pc = "failed"
                  /\ Steps(run) = SubSeq(StepOrder, 1, 1)
            /\ (Answered(run.read) /\ ~Success(run.read))
               => /\ run.pc = "failed"
                  /\ ~run.put.sent
                  /\ ~Entered(run, "write")
                  /\ ~Entered(run, "pr")
            /\ (Answered(run.write) /\ ~Success(run.write))
               => /\ run.pc = "failed"
                  /\ ~Entered(run, "pr")
                  /\ ~Answered(run.pr)
            /\ (Answered(run.pr) /\ ~Success(run.pr))
               => /\ run.pc \in {"json:pr", "failed", "abandoned"}
                  /\ run.url = ""

\* Scenario E: the write answered 409 and the run stopped there
C3_Witness ==
    \E i \in 1..Len(runs) :
        /\ runs[i].write = Http(409)
        /\ runs[i].pc = "failed"
        /\ runs[i].alert = CommitError

\* ------------------------------------------------------------------------
\* C4: fork answers 409, the read succeeds without the learner's identity
\* in the content, write and pull-request creation succeed: the run is
\* Succeeded and reports exactly the html_url of the pull-request answer.
\* ------------------------------------------------------------------------
C4_SucceedsAfter409 ==
    \A i \in 1..Len(runs) :
        (/\ runs[i].fork = Http(409)
         /\ FileParsed(runs[i])
         /\ ~Occurs(marker(runs[i].user), runs[i].content)
         /\ Success(runs[i].write)
         /\ Success(runs[i].pr)
         /\ PullParsed(runs[i]))
        => /\ runs[i].pc = "succeeded"
           /\ runs[i].url = runs[i].prBody.html_url
           /\ runs[i].url # ""

C4_Witness ==
    \E i \in 1..Len(runs) :
        /\ runs[i].fork = Http(409)
        /\ Success(runs[i].pr)
        /\ runs[i].pc = "succeeded"
        /\ runs[i].url = "pull/2"

\* ------------------------------------------------------------------------
\* C5: of two runs for the same identity on the same fork, once the first
\* is Succeeded the second issues no write and, if its read succeeds, ends
\* with the "already completed" message; the fork's ledger holds exactly
\* one entry for the identity.
\* ------------------------------------------------------------------------
C5_SecondRunIsDuplicate ==
    \A i \in 1..Len(runs) : \A j \in 1..Len(runs) :
        (i < j /\ runs[i].user = runs[j].user /\ runs[i].pc = "succeeded")
        => /\ ~runs[j].put.sent
           /\ ~Entered(runs[j], "write")
           /\ runs[j].pc # "succeeded"
           /\ FileParsed(runs[j]) =>
                 (runs[j].pc = "failed" /\ runs[j].alert = DuplicateError)
           /\ EntryCount(ledger[runs[i].user], runs[i].user) = 1

C5_Witness ==
    \E i \in 1..Len(runs) : \E j \in 1..Len(runs) :
        /\ i < j
        /\ runs[i].user = runs[j].user
        /\ runs[i].pc = "succeeded"
        /\ runs[j].alert = DuplicateError
        /\ EntryCount(ledger[runs[i].user], runs[i].user) = 1

\* ------------------------------------------------------------------------
\* C6: a 409 answer to the fork call counts as success: the run goes on to
\* the delay and the read as after a 2xx, and if it fails it fails at a
\* later step, never with the fork error.
\* ------------------------------------------------------------------------
C6_ForkConflictAdvances ==
    \A i \in 1..Len(runs) :
        runs[i].fork = Http(409)
        => /\ Entered(runs[i], "delay")
           /\ runs[i].alert # ForkError
           /\ runs[i].pc = "failed" => Entered(runs[i], "read")
           /\ runs[i].pc \notin {"sleep", "abandoned"} =>
                 Entered(runs[i], "read")

C6_Witness ==
    \E i \in 1..Len(runs) :
        /\ runs[i].fork = Http(409)
        /\ runs[i].pc = "read"

\* ------------------------------------------------------------------------
\* C7 as stated: a run fails at the fork step only on an authentication
\* failure (401/403) or a transient failure (rejected call, 5xx); every
\* other status, 404 included, advances.
\* ------------------------------------------------------------------------
C7_Original ==
    \A i \in 1..Len(runs) :
        FailedAtFork(runs[i])
        => \/ runs[i].fork.kind = "rejected"
           \/ runs[i].fork.status \in {401, 403}
           \/ runs[i].fork.status >= 500

\* ------------------------------------------------------------------------
\* C7 amended: the run advances from the fork step exactly when the fork
\* call answers 2xx or 409; a rejected call and every other status (401,
\* 403, 5xx, and also 404 or 422) send it to Failed.
\* ------------------------------------------------------------------------
C7_ForkAdvancesOn2xxOr409 ==
    \A i \in 1..Len(runs) :
        Answered(runs[i].fork)
        => /\ FailedAtFork(runs[i]) <=>
                 ~(Success(runs[i].fork) \/ runs[i].fork = Http(409))
           /\ FailedAtFork(runs[i]) =>
                 runs[i].alert \in {ForkError, NetworkError}

C7_Witness ==
    \E i \in 1..Len(runs) :
        /\ runs[i].fork = Http(404)
        /\ FailedAtFork(runs[i])
        /\ runs[i].alert = ForkError

\* ------------------------------------------------------------------------
\* C8 as stated: the duplicate guard reports "present" if and only if the
\* ledger has an entry whose identity equals the learner's identity
\* exactly (a proper prefix of a recorded identity is not present).
\* ------------------------------------------------------------------------
C8_GuardIsExactMatch ==
    \A i \in 1..Len(runs) :
        Entered(runs[i], "check")
        => (runs[i].alert = DuplicateError
               <=> EntryCount(runs[i].content, runs[i].user) > 0)

\* ------------------------------------------------------------------------
\* C9 as stated: from currentStage = k an advance (goToModule or
\* completeModule) to k + 2 or beyond fails and leaves currentStage and
\* completedStages unchanged.
\* ------------------------------------------------------------------------
C9_NoSkippingAdvance ==
    [][\A n \in Modules :
          ((CallGoToModule(n) \/ (n > 0 /\ CallCompleteModule(n - 1)))
              /\ n >= currentModule + 2)
          => UNCHANGED <<currentModule, userProgress>>
      ]_vars

\* ------------------------------------------------------------------------
\* C10: a click on sidebar item m navigates to m if and only if m = 0 or
\* m is the current stage or a completed one; a click on any other item
\* leaves currentStage, completedStages and the stored record unchanged.
\* ------------------------------------------------------------------------
C10_JumpOnlyToUnlocked ==
    [][\A m \in Modules :
          SidebarClick(m)
          => IF m = 0 \/ m = currentModule
                      \/ m \in Range(userProgress.completedModules)
             THEN /\ currentModule' = m
                  /\ userProgress'.currentModule = m
                  /\ shown' = SectionId(m)
                  /\ \/ stored' = [present |-> TRUE, value |-> userProgress']
                     \/ stored' = stored
                  /\ lastEvent'.done
             ELSE /\ UNCHANGED <<currentModule, userProgress, stored, shown>>
                  /\ ~lastEvent'.done
      ]_vars

\* Scenario A: started, at stage 1, the click on stage 3 was refused
C10_Witness ==
    /\ lastEvent = [op |-> "jump", arg |-> 3, done |-> FALSE]
    /\ currentModule = 1
    /\ userProgress.completedModules = <<0>>
    /\ stored.present
    /\ stored.value.currentModule = 1

\* the greatest completed stage, 0 when none is completed
MaxCompleted ==
    LET done == Range(userProgress.completedModules) \cup {0}
    IN  CHOOSE m \in done : \A n \in done : n <= m

\* ------------------------------------------------------------------------
\* C11 as stated: in every state the learner can reach, currentStage is 0
\* or exactly one greater than the greatest completed stage.
\* ------------------------------------------------------------------------
C11_Original ==
    currentModule = 0 \/ currentModule = MaxCompleted + 1

\* ------------------------------------------------------------------------
\* C11 amended: currentStage is 0 or at most one greater than the greatest
\* completed stage, and the stage before it is completed; going back to a
\* completed stage leaves it below the greatest completed stage.
\* ------------------------------------------------------------------------
C11_CurrentWithinCompleted ==
    \/ currentModule = 0
    \/ /\ currentModule <= MaxCompleted + 1
       /\ (currentModule - 1) \in Range(userProgress.completedModules)

\* back at stage 1 with stages 1 and 2 completed
C11_Witness ==
    /\ currentModule = 1
    /\ userProgress.completedModules = <<0, 1, 2>>
    /\ lastEvent.op \in {"prev", "jump"}

\* ------------------------------------------------------------------------
\* C12 as stated: once stage 4 has been reached (stage 3 is completed), a
\* click on sidebar item 4 navigates to stage 4 in every later state.
\* ------------------------------------------------------------------------
C12_LastStageStaysNavigable ==
    [][(SidebarClick(LastModule)
           /\ (LastModule - 1) \in Range(userProgress.completedModules))
       => currentModule' = LastModule
      ]_vars

\* ------------------------------------------------------------------------
\* C13: loading restores what was saved.  After a page load with a stored
\* record, currentStage, completedStages, the three selections and the two
\* credentials are those of the record and the section shown is that of
\* the restored currentStage; without a record the page is at Setup(0)
\* with nothing completed.  What a page load restores is the record as it
\* was last written, whatever the page had in memory.
\* ------------------------------------------------------------------------
C13_LoadRestoresSaved ==
    /\ [](lastEvent.op = "load" =>
            IF stored.present
            THEN /\ userProgress = stored.value
                 /\ currentModule = stored.value.currentModule
                 /\ shown = SectionId(stored.value.currentModule)
                 /\ geminiField = stored.value.geminiApiKey
                 /\ tokenField = stored.value.githubToken
            ELSE /\ currentModule = 0
                 /\ userProgress.completedModules = <<>>
                 /\ userProgress.currentModule = 0
                 /\ shown = "home-setup")
    /\ [][(lastEvent'.op = "load" /\ stored.present) =>
              /\ stored' = stored
              /\ userProgress' = stored.value
              /\ currentModule' = stored.value.currentModule
              /\ shown' = SectionId(stored.value.currentModule)
         ]_vars

\* reloaded at stage 2 with an interest chosen
C13_Witness ==
    /\ lastEvent.op = "load"
    /\ stored.present
    /\ currentModule = 2
    /\ userProgress.completedModules = <<0, 1>>
    /\ userProgress.interest = "web-development"
    /\ userProgress.githubToken = <<"k">>
    /\ shown = "module-2"

\* ------------------------------------------------------------------------
\* C14 as stated: after every completed stage transition (startLearning,
\* next button, previous button, sidebar jump) the persisted record exists
\* and holds the currentStage and the completedStages the page has in
\* memory.
\* ------------------------------------------------------------------------
Transitions == {"start", "next", "prev", "jump", "goToModule", "completeModule"}

C14_Original ==
    (lastEvent.op \in Transitions /\ lastEvent.done) =>
        /\ stored.present
        /\ stored.value.currentModule = currentModule
        /\ stored.value.completedModules = userProgress.completedModules
        /\ userProgress.currentModule = currentModule

\* ------------------------------------------------------------------------
\* C14 amended: every completed stage transition ends with a write of the
\* in-memory progress, currentStage and completedStages included, to the
\* persisted record.  When localStorage takes the write the record equals
\* the in-memory progress; when it throws, the error is only logged and
\* the record is what it was before the transition (absent, or the
\* progress of an earlier save).
\* ------------------------------------------------------------------------
C14_SavedWhenStorageAccepts ==
    [][(lastEvent'.op \in Transitions /\ lastEvent'.done) =>
          /\ userProgress'.currentModule = currentModule'
          /\ \/ /\ stored'.present
                /\ stored'.value = userProgress'
                /\ stored'.value.currentModule = currentModule'
             \/ stored' = stored
      ]_vars

\* from Setup through the next button of module 1; the write of the start
\* was taken, the write of the next button was refused
C14_Witness ==
    /\ lastEvent = [op |-> "next", arg |-> 2, done |-> TRUE]
    /\ currentModule = 2
    /\ userProgress.completedModules = <<0, 1>>
    /\ stored.present
    /\ stored.value.completedModules = <<0>>
    /\ stored.value.currentModule = 1

\* ------------------------------------------------------------------------
\* C15: at most one PR workflow run is in flight at any time.  The submit
\* button is disabled from the moment a run passes the validation of its
\* inputs until that run is Succeeded or Failed, so under any interleaving
\* of clicks with the suspended calls and the delay of the run a second
\* run never starts while one is not terminal.  A run is in flight while
\* the page that started it awaits one of its calls or its delay; the one
\* step that takes a run out of flight short of Succeeded and Failed is
\* the load of a new page, which is no click and no answer of a call and
\* leaves no run of the new page in flight.
\* ------------------------------------------------------------------------
Running ==
    {i \in 1..Len(runs) :
        runs[i].pc \notin {"succeeded", "failed", "abandoned"}}

C15_OneRunInFlightPerPage ==
    /\ [](Cardinality(Running) <= 1)
    /\ [](Running # {} => submitDisabled)
    /\ [][Len(runs') > Len(runs) => Running = {}]_vars
    /\ [][\A i \in 1..Len(runs) :
             (~Abandoned(runs[i]) /\ Abandoned(runs'[i])) =>
                 /\ i \in Running
                 /\ Reload
                 /\ ~submitDisabled'
                 /\ Running' = {}]_vars

\* the first run failed at its read, on a page never loaded anew; the
\* second run, started after it, is at its delay with the button disabled
C15_Witness ==
    /\ Len(runs) = 2
    /\ runs[1].pc = "failed"
    /\ Entered(runs[1], "read")
    /\ runs[2].pc = "sleep"
    /\ runs[2].user = runs[1].user
    /\ Running = {2}
    /\ submitDisabled

\* ------------------------------------------------------------------------
\* C16: whenever a run ends in Failed, at whichever step and for whichever
\* cause, the submit button is enabled again (and the form still shown),
\* so that a new run can be started.
\* ------------------------------------------------------------------------
Fails(i) == runs[i].pc # "failed" /\ runs'[i].pc = "failed"

C16_FailureReenablesSubmit ==
    /\ [][\A i \in 1..Len(runs) :
            Fails(i) => ~submitDisabled' /\ ~formHidden']_vars
    /\ [][\A i \in 1..Len(runs) :
            (Fails(i) /\ Len(runs) < MaxRuns) =>
                (ENABLED (\E n \in NameTexts, u \in UserTexts :
                             submitPullRequest(n, u)))']_vars

\* the pull request was created, the body of the answer could not be
\* parsed: the run is Failed and the button enabled
C16_Witness ==
    /\ Len(runs) = 1
    /\ runs[1].pc = "failed"
    /\ Success(runs[1].pr)
    /\ runs[1].alert = JsonError
    /\ ~submitDisabled
    /\ ~formHidden

\* ------------------------------------------------------------------------
\* C17: every started run terminates.  When each remote call is answered
\* or rejected in the end and the delay elapses, a run that passed the
\* validation of its inputs reaches Succeeded or Failed and never stays
\* in a step short of them for ever; no transition of the run aborts it
\* mid-way.  A call has answered when the page was handed its response
\* and, where the code reads the body of the response, that body.  No
\* step takes a run away or moves it once it is terminal, and no step of
\* submitPullRequest leaves a run short of Succeeded and Failed: the load
\* of a new page alone does, and then a call of the run is never answered.
\* ------------------------------------------------------------------------
Terminated(i) == Len(runs) >= i /\ runs[i].pc \in {"succeeded", "failed"}

\* a call of the run, or its delay, that the page has not been answered:
\* the fork call, the delay, the read and the body of its answer, the
\* write, the pull-request call and the body of its answer.  The page has
\* the answer of the write when it went on to the pull request or failed
ForkOwed(run) == ~Answered(run.fork)

DelayOwed(run) == Entered(run, "delay") /\ ~Entered(run, "read")

ReadOwed(run) == Entered(run, "read") /\ ~Answered(run.read)

FileOwed(run) == Success(run.read) /\ run.fileJson = "none"

WriteOwed(run) ==
    /\ Entered(run, "write")
    /\ ~(Answered(run.write) /\ (Entered(run, "pr") \/ run.pc = "failed"))

PullOwed(run) == Entered(run, "pr") /\ ~Answered(run.pr)

PullBodyOwed(run) ==
    Answered(run.pr) /\ run.pr.kind # "rejected" /\ run.prJson = "none"

\* each call of run i is answered or rejected in the end, and its delay
\* elapses
C17_CallsAnswer(i) ==
    /\ []<>~(Len(runs) >= i /\ ForkOwed(runs[i]))
    /\ []<>~(Len(runs) >= i /\ DelayOwed(runs[i]))
    /\ []<>~(Len(runs) >= i /\ ReadOwed(runs[i]))
    /\ []<>~(Len(runs) >= i /\ FileOwed(runs[i]))
    /\ []<>~(Len(runs) >= i /\ WriteOwed(runs[i]))
    /\ []<>~(Len(runs) >= i /\ PullOwed(runs[i]))
    /\ []<>~(Len(runs) >= i /\ PullBodyOwed(runs[i]))

C17_EveryRunTerminates ==
    /\ (\A i \in 1..MaxLiveRuns : C17_CallsAnswer(i)) =>
          (\A i \in 1..MaxLiveRuns : (Len(runs) >= i) ~> Terminated(i))
    /\ [][/\ Len(runs') >= Len(runs)
          /\ \A i \in 1..Len(runs) :
                /\ runs'[i].name = runs[i].name
                /\ Terminated(i) => runs'[i] = runs[i]
                /\ Abandoned(runs[i]) => Abandoned(runs'[i])
                /\ (~Abandoned(runs[i]) /\ Abandoned(runs'[i])) =>
                      Reload]_vars

\* a run that went through the delay, the read and the write and was
\* stopped at its last call
C17_Witness ==
    /\ Terminated(1)
    /\ runs[1].pc = "failed"
    /\ Entered(runs[1], "pr")
    /\ Answered(runs[1].pr)

\* ------------------------------------------------------------------------
\* C18: the outcome of a run stopped by the duplicate guard is distinct
\* from the outcome of every run that failed otherwise (a failed fork,
\* read, write or pull-request call, a rejected call): the two messages
\* reported are never the same.
\* ------------------------------------------------------------------------
StoppedAsDuplicate(run) ==
    /\ run.pc = "failed"
    /\ Success(run.read)
    /\ Occurs(marker(run.user), run.content)

FailedOtherwise(run) == run.pc = "failed" /\ ~StoppedAsDuplicate(run)

C18_DuplicateOutcomeDistinct ==
    \A i, j \in 1..Len(runs) :
        (StoppedAsDuplicate(runs[i]) /\ FailedOtherwise(runs[j]))
            => runs[i].alert # runs[j].alert

\* the pull-request call of the first run is refused with the server's
\* message; the retry finds the entry the first run committed
C18_Witness ==
    /\ Len(runs) = 2
    /\ runs[1].pc = "failed"
    /\ runs[1].pr = Http(422)
    /\ runs[1].alert = "Validation Failed"
    /\ StoppedAsDuplicate(runs[2])

\* ------------------------------------------------------------------------
\* C19: a failed read of the ledger file is reported by its cause: the
\* failure reported for a file that is absent (404) differs from the one
\* reported for a refused credential (401/403).
\* ------------------------------------------------------------------------
C19_ReadFailureTellsCause ==
    \A i, j \in 1..Len(runs) :
        (/\ runs[i].pc = "failed" /\ runs[i].read = Http(404)
         /\ runs[j].pc = "failed" /\ runs[j].read = Http(401))
            => runs[i].alert # runs[j].alert

\* ------------------------------------------------------------------------
\* C20: searchGitHubRepos and searchGoodFirstIssues never fail towards
\* their caller.  When the request rejects, answers with a non-2xx status
\* or returns a body that cannot be processed, they return the static
\* fallback list, which is never empty: for repositories the list of the
\* given topic, or the 'exploring' list when the topic is unknown.
\* ------------------------------------------------------------------------
Returned(fn) == search.pc = "returned" /\ search.fn = fn

RequestFailed ==
    \/ ~Success(search.response)
    \/ ~search.data.parsed
    \/ ~search.data.hasItems

C20_SearchFallsBack ==
    /\ (Returned("searchGitHubRepos") /\ RequestFailed) =>
          /\ search.result.kind = "list"
          /\ search.result.value # <<>>
          /\ search.result.value =
                IF search.topic \in FallbackTopics
                THEN fallbackData[search.topic]
                ELSE fallbackData["exploring"]
    /\ (Returned("searchGoodFirstIssues") /\ RequestFailed) =>
          /\ search.result.kind = "list"
          /\ Len(search.result.value) = 3

\* ------------------------------------------------------------------------
\* C21: each step shows its status before its call is attempted.  In every
\* run the fork call, the delay, the read, the write and the pull-request
\* call are each directly preceded by the updatePRStatus of their step; no
\* call is issued whose status has not been shown.
\* ------------------------------------------------------------------------
StatusOf(call) ==
    IF call = "fork" THEN "status1"
    ELSE IF call = "delay" THEN "status2"
    ELSE IF call = "read" THEN "status3"
    ELSE IF call = "write" THEN "status5"
    ELSE "status6"

Calls == {"fork", "delay", "read", "write", "pr"}

C21_StatusBeforeCall ==
    \A i \in 1..Len(runs) :
        \A k \in 1..Len(runs[i].trace) :
            runs[i].trace[k] \in Calls =>
                /\ k > 1
                /\ runs[i].trace[k - 1] = StatusOf(runs[i].trace[k])

\* a run that has issued all five calls
C21_Witness ==
    \E i \in 1..Len(runs) :
        /\ Calls \subseteq Range(runs[i].trace)
        /\ runs[i].pc = "pr"

\* ------------------------------------------------------------------------
\* C22: no retries.  Within one run each of the four remote operations
\* (fork, read, write, create pull request) is issued at most once,
\* whatever its outcome, and an answered call is never issued again.
\* ------------------------------------------------------------------------
Times(e, trace) == Cardinality({k \in 1..Len(trace) : trace[k] = e})

RemoteCalls == {"fork", "read", "write", "pr"}

C22_NoRetry ==
    /\ [](\A i \in 1..Len(runs) :
             \A c \in RemoteCalls : Times(c, runs[i].trace) <= 1)
    /\ [][\A i \in 1..Len(runs) :
             /\ Answered(runs[i].fork) => runs'[i].fork = runs[i].fork
             /\ Answered(runs[i].read) => runs'[i].read = runs[i].read
             /\ Answered(runs[i].write) => runs'[i].write = runs[i].write
             /\ Answered(runs[i].pr) => runs'[i].pr = runs[i].pr]_vars

\* the write met a conflict (409) and the run ended there
C22_Witness ==
    \E i \in 1..Len(runs) :
        /\ runs[i].write = Http(409)
        /\ runs[i].pc = "failed"
        /\ Times("write", runs[i].trace) = 1
        /\ Times("read", runs[i].trace) = 1

\* ------------------------------------------------------------------------
\* C23: a new run starts from fresh state and never resumes a failed one.
\* A run started after a failed run begins with the fork call, holds no
\* answer, file content, file hash or commit of the earlier run, and
\* leaves the earlier runs as they ended; what it later writes comes from
\* its own read.
\* ------------------------------------------------------------------------
Fresh(run) ==
    /\ run.pc = "fork"
    /\ run.trace = <<"status1", "fork">>
    /\ ~Answered(run.fork) /\ ~Answered(run.read)
    /\ ~Answered(run.write) /\ ~Answered(run.pr)
    /\ run.fileJson = "none" /\ run.prJson = "none"
    /\ run.fileBody.sha = 0
    /\ run.content = <<>>
    /\ run.sha = 0
    /\ ~run.put.sent

C23_NewRunIsFresh ==
    /\ [][Len(runs') > Len(runs) =>
            /\ Len(runs') = Len(runs) + 1
            /\ Fresh(runs'[Len(runs')])
            /\ \A i \in 1..Len(runs) : runs'[i] = runs[i]]_vars
    /\ [](\A i \in 1..Len(runs) :
            (Entered(runs[i], "check") \/ runs[i].put.sent) =>
                /\ IsPrefix(<<"fork", "delay", "read">>, Steps(runs[i]))
                /\ FileParsed(runs[i]))

\* the first run read the file and failed at its write; the second run
\* is back at the fork call
C23_Witness ==
    /\ Len(runs) = 2
    /\ runs[1].pc = "failed"
    /\ Answered(runs[1].write)
    /\ runs[1].sha > 0
    /\ Fresh(runs[2])

\* ------------------------------------------------------------------------
\* C24: the write of a run carries as previous hash the sha its own read
\* returned and as content the content of that read with the learner's
\* new entry appended as last line; read and write address the file on
\* the learner's own fork.
\* ------------------------------------------------------------------------
Written(run) == Lines(run.put.content.b64)

ReadNow(i) == ~Success(runs[i].read) /\ Success(runs'[i].read)

\* what the read of the run returned
ReadContent(run) == run.fileBody.content.b64

WriteTaken(i) == ~Success(runs[i].write) /\ Success(runs'[i].write)

C24_WriteCarriesRead ==
    /\ [](\A i \in 1..Len(runs) :
            runs[i].put.sent =>
                /\ FileParsed(runs[i])
                /\ runs[i].put.sha = runs[i].fileBody.sha
                /\ runs[i].sha = runs[i].fileBody.sha
                /\ runs[i].content = ReadContent(runs[i])
                /\ Len(Written(runs[i])) =
                      Len(Lines(ReadContent(runs[i]))) + 1
                /\ IsPrefix(Lines(ReadContent(runs[i])), Written(runs[i]))
                /\ EntryOf(Written(runs[i])[Len(Written(runs[i]))],
                           runs[i].user)
                /\ Occurs(runs[i].name,
                          Written(runs[i])[Len(Written(runs[i]))]))
    /\ [][\A i \in 1..Len(runs) :
            /\ ReadNow(i) => /\ ReadContent(runs'[i]) = ledger[runs[i].user]
                             /\ runs'[i].fileBody.sha = sha[runs[i].user]
            /\ Success(runs[i].read) => runs'[i].fileBody = runs[i].fileBody
            /\ WriteTaken(i) =>
                  /\ ledger'[runs[i].user] = runs[i].put.content.b64
                  /\ \A u \in Users \ {runs[i].user} : ledger'[u] = ledger[u]
         ]_vars

\* ------------------------------------------------------------------------
\* C25: appending an entry adds exactly one line and changes nothing else.
\* For every ledger text the lines of the updated text are the lines of
\* the existing text, unchanged and in the same order, followed by the one
\* new entry line.
\* ------------------------------------------------------------------------
C25_AppendAddsOneLine ==
    appended.called =>
        Lines(appended.result) = Lines(appended.content) \o <<appended.entry>>

\* ------------------------------------------------------------------------
\* C26: unlocking is monotonic.  Under any sequence of startLearning,
\* completeModule, goToModule and sidebar jumps on one page (a session:
\* a page load starts from the persisted record), completedStages only
\* grows (what was completed stays completed, in the same place) and
\* never holds the same stage twice.
\* ------------------------------------------------------------------------
NoRepeats(s) == \A a, b \in 1..Len(s) : s[a] = s[b] => a = b

C26_CompletedOnlyGrows ==
    /\ [][lastEvent'.op # "load" =>
             IsPrefix(userProgress.completedModules,
                      userProgress'.completedModules)]_vars
    /\ [](NoRepeats(userProgress.completedModules))

\* module 1 was completed, left through the previous button and
\* completed again
C26_Witness ==
    /\ lastEvent = [op |-> "next", arg |-> 2, done |-> TRUE]
    /\ userProgress.completedModules = <<0, 1, 2>>
    /\ currentModule = 2

\* ------------------------------------------------------------------------
\* C27: an advance to stage n marks stage n-1 complete only if n-1 is
\* positive.  The advance from Setup(0) to stage 1 (startLearning) adds
\* nothing to completedStages: stage 0 never becomes a member of it.
\* ------------------------------------------------------------------------
C27_SetupNeverCompleted ==
    [][0 \notin Range(userProgress.completedModules)
         => 0 \notin Range(userProgress'.completedModules)]_vars

\* ------------------------------------------------------------------------
\* C28: once the write of a run has succeeded for an identity, no later
\* run for that identity reaches the pull-request call or Succeeded while
\* the fork's ledger keeps the entry: a later run that reads the ledger
\* is stopped as a duplicate, so a run that failed at the pull-request
\* call after its commit is not completed by running the workflow again.
\* ------------------------------------------------------------------------
C28_NoPullRequestAfterCommit ==
    \A i, j \in 1..Len(runs) :
        (i < j /\ runs[j].user = runs[i].user /\ Success(runs[i].write))
        => /\ Occurs(marker(runs[i].user), ledger[runs[i].user])
           /\ ~Entered(runs[j], "pr")
           /\ ~Answered(runs[j].pr)
           /\ ~Success(runs[j].write)
           /\ runs[j].pc # "succeeded"
           /\ (FileParsed(runs[j]) /\ runs[j].fileBody.sha > runs[i].put.sha)
                 => /\ StoppedAsDuplicate(runs[j])
                    /\ ~runs[j].put.sent

\* the pull-request call of the first run was rejected after its commit;
\* the retry is stopped at the check
C28_Witness ==
    /\ Len(runs) = 2
    /\ runs[2].user = runs[1].user
    /\ Success(runs[1].write)
    /\ runs[1].pr = Rejected
    /\ runs[1].pc = "failed"
    /\ Entered(runs[2], "check")
    /\ runs[2].pc = "failed"

\* ------------------------------------------------------------------------
\* C29: after a run reaches Succeeded the submit button is never enabled
\* again on that page: it stays disabled and the form stays hidden, no
\* second run starts and no further call of the workflow is issued until
\* the page is loaded anew.
\* ------------------------------------------------------------------------
Succeeds(i) == runs[i].pc # "succeeded" /\ runs'[i].pc = "succeeded"

C29_NoRunAfterSuccess ==
    /\ [][\A i \in 1..Len(runs) :
             Succeeds(i) => submitDisabled' /\ formHidden']_vars
    /\ [][(submitDisabled /\ formHidden /\ ~Reload) =>
             /\ submitDisabled' /\ formHidden'
             /\ Len(runs') = Len(runs)
             /\ \A i \in 1..Len(runs) :
                   /\ runs'[i].trace = runs[i].trace
                   /\ runs'[i].pc = runs[i].pc]_vars
    /\ [](formHidden => (submitDisabled /\ Running = {}))

\* the second run of the browser succeeded, after a first that failed
C29_Witness ==
    /\ Len(runs) = 2
    /\ runs[1].pc = "failed"
    /\ runs[2].pc = "succeeded"
    /\ submitDisabled
    /\ formHidden

\* ------------------------------------------------------------------------
\* C30: when generateModule1Content is triggered again while an earlier
\* generation still awaits its answer, then for every order in which the
\* two answers arrive the content finally displayed is the answer to the
\* latest request, and the project list shown with it is for the same
\* interest as that content.
\* ------------------------------------------------------------------------
\* every generation was answered by Gemini and by the repository search
Settled ==
    /\ Len(module1.requests) >= 2
    /\ Generating = {}
    /\ \A i \in 1..Len(module1.requests) : module1.requests[i].topic # ""
    /\ module1.aiResponse.kind = "content"
    /\ module1.projects.kind \in {"list", "empty"}

C30_LatestRequestDisplayed ==
    Settled =>
        /\ module1.aiResponse.interest =
               module1.requests[Len(module1.requests)].interest
        /\ module1.projects.topic = module1.aiResponse.interest

====
